---- MODULE Spec2Model ----
(***************************************************************************)
(* Model of the census profile lookup of the groundtruth backend           *)
(* (src/backend/app/census_profile_service.py, src/backend/app/main.py):   *)
(* the HTTP request client with retry and backoff, the resilient table     *)
(* fetcher with its per-table fallback, the payload merge, and the         *)
(* by-point lookup with the endpoint's error mapping.                      *)
(*                                                                         *)
(* Text is modelled as the sequence of its whitespace-separated words      *)
(* (what " ".join(text.split()) keeps); a word is [pre, core, post]: a     *)
(* core of letters/digits between two runs of punctuation.  Times are in   *)
(* half seconds, so that 0.5 s is the integer 1.                           *)
(***************************************************************************)
EXTENDS Integers, Sequences, FiniteSets, TLC

VARIABLES
    entry,              \* the function the environment called
    retries,            \* ApiConfig.retries
    include_parents,    \* the lookup's include_parents argument
    \* ---- request_json frame
    call,               \* the requester call in progress: url, stage, table_ids, geoids
    attempt,            \* the loop variable of request_json
    last_error,         \* request_json's last_error
    result,             \* what request_json returned or raised, NoResult while it runs
    \* ---- what the outside world saw of the current request_json call
    gets,               \* number of client.get calls made
    sleeps,             \* the time.sleep durations, in order
    lastOutcome,        \* the outcome of the latest client.get
    lastSlept,          \* whether a sleep followed the latest client.get
    \* ---- fetch_data_show_resilient frame
    fstage,             \* its stage argument
    table_ids,          \* its table_ids argument
    geoids,             \* its geoids argument
    degraded,           \* whether the per-table loop was entered
    idx,                \* position of the per-table loop in table_ids
    merged,             \* the accumulating payload
    ferrors,            \* its errors list
    successful_tables,  \* its counter
    fresult,            \* what the fetch returned or raised
    \* ---- lookup_census_profile_by_point frame
    pc,                 \* where the lookup (or the entry function) stands
    geo,                \* tract_geoid, county_geoid, zcta_geoid, comparison_geoids
    errors,             \* the lookup's errors list
    fetched,            \* (payload, errors) of the fetches that returned, in order
    response,           \* the endpoint's answer, NoResponse until it is made
    \* ---- the requests issued through requester_fn, in order, with their outcome
    requests,
    \* ---- merge_data_show_payload exercised alone
    base0,              \* the accumulator before the first merge
    base,               \* the accumulator
    incoming,           \* the payload merged into it
    once,               \* the accumulator after the first merge
    merges,             \* number of merges done
    \* ---- a pure function exercised alone
    args,               \* the arguments it is called with
    ret,                \* what it returned, <<>> until it has
    \* ---- scripts_sumedh/overpass_pois.py
    CACHE,              \* _CACHE: key -> (ts, data)
    clock               \* time.time(), in seconds since the process started

vars == <<entry, retries, include_parents, call, attempt, last_error, result,
          gets, sleeps, lastOutcome, lastSlept,
          fstage, table_ids, geoids, degraded, idx, merged, ferrors,
          successful_tables, fresult,
          pc, geo, errors, fetched, response, requests,
          base0, base, incoming, once, merges, args, ret, CACHE, clock>>

requestVars == <<call, attempt, last_error, result, gets, sleeps, lastOutcome, lastSlept>>
fetchVars == <<fstage, table_ids, geoids, degraded, idx, merged, ferrors,
               successful_tables, fresult>>
lookupVars == <<geo, errors, fetched, response>>
mergeVars == <<base0, base, incoming, once, merges>>
pureVars == <<args, ret>>
poiVars == <<CACHE, clock>>

(***************************************************************************)
(* Bounds of the model.                                                    *)
(***************************************************************************)
\* retries is drawn from 0..MaxRetries when request_json is called alone
MaxRetries == 6
\* retries is drawn from 0..MaxLookupRetries for a fetch or a whole lookup
MaxLookupRetries == 1
\* the fetchers are given the first NumTables entries of FULL_TRACT_TABLES
NumTables == 3
\* the lookup is given the first NumLookupTables entries of FULL_TRACT_TABLES
NumLookupTables == 2
MaxParents == 3
MaxRatio == 260
MaxClock == 7200

Min(a, b) == IF a <= b THEN a ELSE b

RECURSIVE Pow2(_)
Pow2(n) == IF n <= 0 THEN 1 ELSE 2 * Pow2(n - 1)

(***************************************************************************)
(* Text.                                                                   *)
(***************************************************************************)
W(s) == [pre |-> "", core |-> s, post |-> ""]
P(a, s, b) == [pre |-> a, core |-> s, post |-> b]

Words(ss) == [i \in 1..Len(ss) |-> W(ss[i])]

\* str.lower() on the letters the model's texts use
LowerCore(s) ==
    CASE s = "None" -> "none"
      [] s = "NONE" -> "none"
      [] s = "OF" -> "of"
      [] s = "THE" -> "the"
      [] s = "RELEASES" -> "releases"
      [] s = "HAD" -> "had"
      [] s = "REQUESTED" -> "requested"
      [] s = "GEO_IDS" -> "geo_ids"
      [] s = "AND" -> "and"
      [] s = "TABLE_IDS" -> "table_ids"
      [] s = "Not" -> "not"
      [] s = "Found" -> "found"
      [] s = "HTTP" -> "http"
      [] s = "Network" -> "network"
      [] s = "ReadTimeout" -> "readtimeout"
      [] s = "Invalid" -> "invalid"
      [] s = "JSON" -> "json"
      [] s = "County" -> "county"
      [] s = "STATE" -> "state"
      [] s = "B01003" -> "b01003"
      [] s = "B01002" -> "b01002"
      [] s = "B01001" -> "b01001"
      [] s = "B03002" -> "b03002"
      [] s = "tract_full:B01003" -> "tract_full:b01003"
      [] s = "tract_full:B01002" -> "tract_full:b01002"
      [] s = "tract_full:B01001" -> "tract_full:b01001"
      [] s = "tract_full:B03002" -> "tract_full:b03002"
      [] s = "comparisons:B01003" -> "comparisons:b01003"
      [] s = "comparisons:B01002" -> "comparisons:b01002"
      [] s = "comparisons:B01001" -> "comparisons:b01001"
      [] s = "comparisons:B03002" -> "comparisons:b03002"
      [] OTHER -> s

Lower(text) ==
    [i \in 1..Len(text) |->
        [pre |-> LowerCore(text[i].pre), core |-> LowerCore(text[i].core),
         post |-> LowerCore(text[i].post)]]

WordLen(w) == Len(w.pre) + Len(w.core) + Len(w.post)

\* len(" ".join(words[1..k]))
RECURSIVE JoinedLen(_, _)
JoinedLen(text, k) ==
    IF k = 0 THEN 0
    ELSE IF k = 1 THEN WordLen(text[1])
    ELSE JoinedLen(text, k - 1) + 1 + WordLen(text[k])

\* `needle in haystack` for single-spaced texts: the needle's first word may
\* end a word of the haystack, its last word may start one, the words between
\* are equal.  The needle's words are plain (no punctuation).
EndsWithWord(w, n) == w.core = n.core /\ w.post = ""
StartsWithWord(w, n) == w.core = n.core /\ w.pre = ""

Contains(haystack, needle) ==
    LET n == Len(needle) IN
    \E i \in 1..(Len(haystack) - n + 1) :
        /\ EndsWithWord(haystack[i], needle[1])
        /\ StartsWithWord(haystack[i + n - 1], needle[n])
        /\ \A k \in 2..(n - 1) : haystack[i + k - 1] = needle[k]

NumDigit(d) ==
    CASE d = 0 -> "0" [] d = 1 -> "1" [] d = 2 -> "2" [] d = 3 -> "3" [] d = 4 -> "4"
      [] d = 5 -> "5" [] d = 6 -> "6" [] d = 7 -> "7" [] d = 8 -> "8" [] OTHER -> "9"

\* str(n) of a non-negative int
RECURSIVE NumText(_)
NumText(n) == IF n < 10 THEN NumDigit(n) ELSE NumText(n \div 10) \o NumDigit(n % 10)

(***************************************************************************)
(* Python values: None, an opaque scalar, a dict (a function on its keys). *)
(***************************************************************************)
PyNone == [t |-> "none"]
Str(s) == [t |-> "str", v |-> s]
Dict(f) == [t |-> "dict", v |-> f]
NotJson == [t |-> "notjson"]

IsDict(x) == x.t = "dict"
EmptyDict == Dict(<<>>)

\* d.get(k) of a dict given as a function
Get(d, k) == IF k \in DOMAIN d THEN d[k] ELSE PyNone
\* d[k] = x
Set(d, k, x) == [j \in (DOMAIN d) \cup {k} |-> IF j = k THEN x ELSE d[j]]
\* d.update(e)
Update(d, e) == [j \in (DOMAIN d) \cup (DOMAIN e) |-> IF j \in DOMAIN e THEN e[j] ELSE d[j]]
\* d.setdefault(k, {}) as the dict it leaves
SetDefault(d, k) == IF k \in DOMAIN d THEN d ELSE Set(d, k, EmptyDict)

Range(seq) == {seq[i] : i \in 1..Len(seq)}

(***************************************************************************)
(* Constants of census_profile_service.py.                                 *)
(***************************************************************************)
FULL_TRACT_TABLES ==
    <<"B01003", "B01002", "B01001", "B03002", "B19013", "B19301", "B19001", "B17001",
      "B23025", "B25001", "B25002", "B25003", "B25024", "B25064", "B25077", "B25075",
      "B08301", "B08303", "B08013", "B15003", "B05002", "B05006", "B07003", "B11001",
      "B25010", "B12001", "B13016", "B21001", "B16001">>

COMPARISON_TABLES == FULL_TRACT_TABLES

RETRYABLE_STATUS_CODES_429_only == {429}
RETRYABLE_STATUS_CODES_with_404 == {404, 429, 500, 502, 503, 504}
RETRYABLE_STATUS_CODES == {429, 500, 502, 503, 504}

\* the tables a call is given in the model
FirstTables(n) == SubSeq(FULL_TRACT_TABLES, 1, Min(n, Len(FULL_TRACT_TABLES)))

(***************************************************************************)
(* Exceptions.                                                             *)
(***************************************************************************)
NoExc == [type |-> "none", stage |-> "", message |-> <<>>]

\* UpstreamAPIError.__init__
UpstreamAPIError(stage, message) ==
    [type |-> "UpstreamAPIError", stage |-> stage, message |-> message]

NoTractFoundError ==
    [type |-> "NoTractFoundError", stage |-> "",
     message |-> Words(<<"No", "census", "tract", "found", "for", "the", "provided",
                         "coordinates.">>)]

ValueError(what) ==
    [type |-> "ValueError", stage |-> "",
     message |-> Words(<<"Unexpected", what, "GEOID", "format">>)]

KeyError == [type |-> "KeyError", stage |-> "", message |-> Words(<<"GEOID">>)]

\* str(exc): UpstreamAPIError passes "[stage] message" to RuntimeError
ExcStr(exc) ==
    IF exc.type = "UpstreamAPIError"
    THEN <<P("[", exc.stage, "]")>> \o exc.message
    ELSE exc.message

(***************************************************************************)
(* request_json and its helpers.                                           *)
(***************************************************************************)
\* min(8.0, 0.5 * 2**attempt), in half seconds
backoff_seconds_uncapped(a) == Pow2(a)
backoff_seconds_linear(a) == Min(16, a + 1)
backoff_seconds(a) == Min(16, Pow2(a))

\* " ".join(text.split()), cut to 240 characters plus "..."
short_error_text(text) ==
    LET n == Len(text) IN
    IF JoinedLen(text, n) <= 240 THEN text
    ELSE LET k == CHOOSE j \in 0..(n - 1) :
                      JoinedLen(text, j) <= 240 /\ JoinedLen(text, j + 1) > 240
             head == SubSeq(text, 1, k)
             room == 240 - JoinedLen(text, k) - (IF k = 0 THEN 0 ELSE 1)
             next == text[k + 1]
         IN  IF room < 0
             THEN \* the cut falls right after word k
                  SubSeq(text, 1, k - 1)
                      \o <<P(text[k].pre, text[k].core, text[k].post \o "...")>>
             ELSE IF room = 0
             THEN head \o <<P("", "", "...")>>
             ELSE IF Len(next.pre) + Len(next.core) <= room
             THEN \* the cut falls in the punctuation after the core
                  head \o <<P(next.pre, next.core, "~...")>>
             ELSE \* the core itself is cut: "~" stands for what is left of it
                  head \o <<P("", "~", "...")>>

\* the three messages request_json puts in an UpstreamAPIError
NetworkErrorMessage(excText) ==
    Words(<<"Network", "error", "after", "retries:">>) \o excText

HttpErrorMessage(status, text) ==
    <<W("HTTP"), P("", NumText(status), ":")>> \o short_error_text(text)

InvalidJsonMessage(status) ==
    Words(<<"Invalid", "JSON", "in", "upstream", "response">>)
        \o <<P("(", "HTTP", ""), P("", NumText(status), ")")>>

\* `attempt < config.retries`: another attempt is left
attempts_left_always(a, r) == TRUE
attempts_left_off_by_one(a, r) == a + 1 < r
attempts_left(a, r) == a < r

\* `400 <= status < 500`
is_client_error_never(status) == FALSE
is_client_error(status) == 400 <= status /\ status < 500

NoResult == [kind |-> "none", value |-> PyNone, exc |-> NoExc]
Return(v) == [kind |-> "return", value |-> v, exc |-> NoExc]
Raise(e) == [kind |-> "raise", value |-> PyNone, exc |-> e]

\* One iteration of request_json's loop on the outcome o of client.get:
\* what the loop does next (retry after a sleep, or end with a result).
request_json_step(stage, a, r, o) ==
    IF o.kind = "exc"
    THEN IF attempts_left(a, r)
         THEN [retry |-> TRUE, result |-> NoResult,
               last_error |-> [type |-> "TransportError", stage |-> "", message |-> o.text]]
         ELSE [retry |-> FALSE,
               result |-> Raise(UpstreamAPIError(stage, NetworkErrorMessage(o.text))),
               last_error |-> [type |-> "TransportError", stage |-> "", message |-> o.text]]
    ELSE IF o.status \in RETRYABLE_STATUS_CODES
    THEN LET err == UpstreamAPIError(stage, HttpErrorMessage(o.status, o.text)) IN
         IF attempts_left(a, r)
         THEN [retry |-> TRUE, result |-> NoResult, last_error |-> err]
         ELSE [retry |-> FALSE, result |-> Raise(err), last_error |-> err]
    ELSE IF is_client_error(o.status)
    THEN [retry |-> FALSE,
          result |-> Raise(UpstreamAPIError(stage, HttpErrorMessage(o.status, o.text))),
          last_error |-> NoExc]
    ELSE IF o.json = NotJson
    THEN [retry |-> FALSE,
          result |-> Raise(UpstreamAPIError(stage, InvalidJsonMessage(o.status))),
          last_error |-> NoExc]
    ELSE [retry |-> FALSE, result |-> Return(o.json), last_error |-> NoExc]

(***************************************************************************)
(* merge_data_show_payload: the dict `base` is left as returned here.      *)
(***************************************************************************)
new_empty_data_show_payload ==
    [k \in {"release", "tables", "geography", "data"} |->
        IF k = "release" THEN PyNone ELSE EmptyDict]

merge_release_overwrite(b, inc) ==
    IF Get(inc, "release") # PyNone THEN Set(b, "release", Get(inc, "release")) ELSE b
merge_release(b, inc) ==
    IF Get(b, "release") = PyNone /\ Get(inc, "release") # PyNone
    THEN Set(b, "release", Get(inc, "release"))
    ELSE b

\* the `tables` and `geography` blocks: setdefault, then update
merge_section_create_or_update(b, inc, key) ==
    IF IsDict(Get(inc, key))
    THEN IF key \notin DOMAIN b THEN Set(b, key, EmptyDict)
         ELSE IF IsDict(b[key]) THEN Set(b, key, Dict(Update(b[key].v, inc[key].v)))
         ELSE b
    ELSE b
merge_section(b, inc, key) ==
    IF IsDict(Get(inc, key))
    THEN LET b1 == SetDefault(b, key) IN
         IF IsDict(b1[key])
         THEN Set(b1, key, Dict(Update(b1[key].v, inc[key].v)))
         ELSE b1
    ELSE b

\* the `data` block: per geoid, make sure base has a dict, then update it
merge_geoid_tables_replace(bd, g, geoid_tables) ==
    IF IsDict(geoid_tables) THEN geoid_tables
    ELSE IF g \in DOMAIN bd /\ IsDict(bd[g]) THEN bd[g] ELSE EmptyDict
merge_geoid_tables(bd, g, geoid_tables) ==
    LET cur == IF g \in DOMAIN bd /\ IsDict(bd[g]) THEN bd[g] ELSE EmptyDict IN
    IF IsDict(geoid_tables) THEN Dict(Update(cur.v, geoid_tables.v)) ELSE cur

merge_data(b, inc) ==
    IF IsDict(Get(inc, "data"))
    THEN LET b1 == SetDefault(b, "data") IN
         IF IsDict(b1["data"])
         THEN LET bd == b1["data"].v
                  id == inc["data"].v
              IN  Set(b1, "data",
                      Dict([g \in (DOMAIN bd) \cup (DOMAIN id) |->
                              IF g \in DOMAIN id
                              THEN merge_geoid_tables(bd, g, id[g])
                              ELSE bd[g]]))
         ELSE b1
    ELSE b

merge_data_show_payload(b, inc) ==
    merge_data(merge_section(merge_section(merge_release(b, inc), inc, "tables"),
                             inc, "geography"),
               inc)

(***************************************************************************)
(* fetch_data_show_resilient.                                              *)
(***************************************************************************)
MARKER ==
    Words(<<"none", "of", "the", "releases", "had", "the", "requested", "geo_ids",
            "and", "table_ids">>)

\* `marker not in str(exc).lower()`, negated
marker_in_message_any(exc) == TRUE
marker_in_message_case_sensitive(exc) == Contains(ExcStr(exc), MARKER)
marker_in_message(exc) == Contains(Lower(ExcStr(exc)), MARKER)

\* census_service.py: NO_RELEASES_MARKERS and _looks_like_no_release_error
NO_RELEASES_MARKERS ==
    <<Words(<<"none", "of", "the", "releases", "had">>), Words(<<"requested", "geo_ids">>)>>

looks_like_no_release_error(message) ==
    \A k \in 1..Len(NO_RELEASES_MARKERS) : Contains(Lower(message), NO_RELEASES_MARKERS[k])

\* f"{stage}:{table_id}"
table_stage_plain(stage, table_id) == stage
table_stage(stage, table_id) == stage \o ":" \o table_id

\* the entry appended for a failed table
table_error_entry(stage, table_id, exc) ==
    [stage |-> stage, table_id |-> table_id, message |-> ExcStr(exc)]

\* the entry put in front of a non-empty error list
summary_entry(stage, succeeded, requested) ==
    [stage |-> stage,
     message |->
        Words(<<"Bulk", "table", "request", "failed;", "completed", "with",
                "per-table", "fallback">>)
        \o <<P("(", NumText(succeeded) \o "/" \o NumText(requested), ""),
             W("tables"), P("", "succeeded", ").")>>]

all_failed_message(first) ==
    Words(<<"All", "per-table", "fallback", "requests", "failed.", "First", "error:">>)
        \o first

NoFetchResult == [kind |-> "none", payload |-> <<>>, errors |-> <<>>, exc |-> NoExc]
FetchReturn(payload, errs) ==
    [kind |-> "return", payload |-> payload, errors |-> errs, exc |-> NoExc]
FetchRaise(e) == [kind |-> "raise", payload |-> <<>>, errors |-> <<>>, exc |-> e]

\* lines 378-393: what the fetch ends with once the per-table loop is over
fetch_finish_drop_summary(stage, tids, m, errs, succ) ==
    IF succ = 0 THEN FetchRaise(UpstreamAPIError(stage, <<>>)) ELSE FetchReturn(m, errs)
fetch_finish_never_raise(stage, tids, m, errs, succ) ==
    FetchReturn(m, IF errs # <<>>
                   THEN <<summary_entry(stage, succ, Len(tids))>> \o errs
                   ELSE errs)
fetch_finish_last_error(stage, tids, m, errs, succ) ==
    IF succ = 0
    THEN FetchRaise(UpstreamAPIError(stage,
            all_failed_message(IF errs # <<>> THEN errs[Len(errs)].message ELSE <<>>)))
    ELSE FetchReturn(m, IF errs # <<>>
                        THEN <<summary_entry(stage, succ, Len(tids))>> \o errs
                        ELSE errs)
fetch_finish(stage, tids, m, errs, succ) ==
    IF succ = 0
    THEN FetchRaise(UpstreamAPIError(stage,
            all_failed_message(IF errs # <<>>
                               THEN errs[1].message
                               ELSE Words(<<"No", "fallback", "requests", "succeeded.">>))))
    ELSE FetchReturn(m, IF errs # <<>>
                        THEN <<summary_entry(stage, succ, Len(tids))>> \o errs
                        ELSE errs)

(***************************************************************************)
(* The geocoder adapter.  A geocoder record is a dict on "GEOID", "ZCTA5",  *)
(* "NAME"; a missing str is "".                                            *)
(***************************************************************************)
\* str.isdigit() on the strings the model's payloads use
isdigit(text) ==
    text \in {"55025001704", "5502500170", "55025", "55", "53703",
              "140", "860", "050", "50", "160", "310", "040", "40", "010", "10", "950"}

GetS(record, k) == IF k \in DOMAIN record THEN record[k] ELSE ""

Ok(v) == [ok |-> TRUE, v |-> v, exc |-> NoExc]
Err(e) == [ok |-> FALSE, v |-> "", exc |-> e]

\* geocoder_payload["result"]["geographies"]["Census Tracts"][0], or NoTractFoundError
extract_first_tract_unchecked(payload) ==
    Ok(IF payload.tracts = <<>> THEN <<>> ELSE payload.tracts[1])
extract_first_tract(payload) ==
    IF payload.tracts = <<>> THEN Err(NoTractFoundError) ELSE Ok(payload.tracts[1])

\* extract_optional_first_geography(payload, "Counties"): <<>> stands for None
extract_optional_county(payload) ==
    IF payload.counties = <<>> THEN <<>> ELSE payload.counties[1]

\* extract_optional_zcta: the first non-empty layer whose name contains
\* "ZIP Code Tabulation Areas"; payload.zcta_layers lists those layers in order
RECURSIVE extract_optional_zcta_from(_)
extract_optional_zcta_from(layers) ==
    IF layers = <<>> THEN <<>>
    ELSE IF Head(layers) # <<>> THEN Head(layers)[1]
    ELSE extract_optional_zcta_from(Tail(layers))

extract_optional_zcta(payload) == extract_optional_zcta_from(payload.zcta_layers)

build_reporter_tract_geoid_unchecked(fips) == Ok("14000US" \o fips)
build_reporter_tract_geoid(fips) ==
    IF Len(fips) # 11 \/ ~isdigit(fips)
    THEN Err(ValueError("tract"))
    ELSE Ok("14000US" \o fips)

build_reporter_county_geoid(fips) ==
    IF Len(fips) # 5 \/ ~isdigit(fips)
    THEN Err(ValueError("county"))
    ELSE Ok("05000US" \o fips)

build_reporter_zcta_geoid(fips) ==
    IF Len(fips) # 5 \/ ~isdigit(fips)
    THEN Err(ValueError("ZIP/ZCTA"))
    ELSE Ok("86000US" \o fips)

\* lines 1596-1616 of lookup_census_profile_by_point: the geoids taken from
\* the geocoder payload, or the exception that ends the lookup there
resolve_geocoder(payload) ==
    LET tract == extract_first_tract(payload) IN
    IF ~tract.ok THEN Err(tract.exc)
    ELSE IF "GEOID" \notin DOMAIN tract.v THEN Err(KeyError)
    ELSE LET tract_geoid == build_reporter_tract_geoid(tract.v["GEOID"]) IN
    IF ~tract_geoid.ok THEN Err(tract_geoid.exc)
    ELSE LET county_record == extract_optional_county(payload)
             zcta_record == extract_optional_zcta(payload)
             county_fips == GetS(county_record, "GEOID")
             county_geoid == IF county_record # <<>> /\ county_fips # ""
                             THEN build_reporter_county_geoid(county_fips)
                             ELSE Ok("")
         IN
    IF ~county_geoid.ok THEN Err(county_geoid.exc)
    ELSE LET zcta_candidate == IF GetS(zcta_record, "GEOID") # ""
                               THEN GetS(zcta_record, "GEOID")
                               ELSE GetS(zcta_record, "ZCTA5")
             zcta_geoid == IF zcta_record # <<>> /\ zcta_candidate # ""
                           THEN build_reporter_zcta_geoid(zcta_candidate)
                           ELSE Ok("")
         IN
    IF ~zcta_geoid.ok THEN Err(zcta_geoid.exc)
    ELSE Ok([tract_geoid |-> tract_geoid.v,
             county_geoid |-> county_geoid.v,
             zcta_geoid |-> zcta_geoid.v])

\* required_geoids_by_sumlevel as the dict's items, in insertion order
required_geoids_by_sumlevel(zcta_geoid, county_geoid) ==
    (IF zcta_geoid # "" THEN <<(<<"860", zcta_geoid>>)>> ELSE <<>>)
        \o (IF county_geoid # "" THEN <<(<<"050", county_geoid>>)>> ELSE <<>>)

(***************************************************************************)
(* build_comparison_geoids.  A parent is a dict on "sumlevel", "geoid",    *)
(* "full_geoid", "relation", "display_name".                               *)
(***************************************************************************)
\* str.zfill(3)
zfill3(text) ==
    IF Len(text) >= 3 THEN text
    ELSE IF Len(text) = 2 THEN "0" \o text
    ELSE IF Len(text) = 1 THEN "00" \o text
    ELSE "000"

normalize_sumlevel_unpadded(value) == value
normalize_sumlevel(value) == IF isdigit(value) THEN zfill3(value) ELSE value

\* lines 216-228: the first parent seen per normalized sumlevel
RECURSIVE group_by_sumlevel(_, _)
group_by_sumlevel(parents, by) ==
    IF parents = <<>> THEN by
    ELSE LET parent == Head(parents)
             geoid == IF GetS(parent, "geoid") # "" THEN GetS(parent, "geoid")
                      ELSE GetS(parent, "full_geoid")
             sumlevel == normalize_sumlevel(GetS(parent, "sumlevel"))
             by1 == IF geoid = "" \/ sumlevel = "" \/ sumlevel \in DOMAIN by
                    THEN by
                    ELSE Set(by, sumlevel,
                             Set(Set(parent, "sumlevel", sumlevel), "geoid", geoid))
         IN  group_by_sumlevel(Tail(parents), by1)

\* required["140"] = tract_geoid on the dict's items
RECURSIVE set_item(_, _, _)
set_item(items, k, x) ==
    IF items = <<>> THEN <<(<<k, x>>)>>
    ELSE IF Head(items)[1] = k THEN <<(<<k, x>>)>> \o Tail(items)
    ELSE <<Head(items)>> \o set_item(Tail(items), k, x)

default_relation_always_related(sumlevel) == "related"
default_relation(sumlevel) ==
    CASE sumlevel = "140" -> "this"
      [] sumlevel = "860" -> "zcta"
      [] sumlevel = "050" -> "county"
      [] OTHER -> "related"

\* lines 233-241: the required geoids override what the parents gave
RECURSIVE apply_required(_, _)
apply_required(items, by) ==
    IF items = <<>> THEN by
    ELSE LET sumlevel == Head(items)[1]
             geoid == Head(items)[2]
             old == IF sumlevel \in DOMAIN by THEN by[sumlevel] ELSE <<>>
             r1 == Set(Set(old, "sumlevel", sumlevel), "geoid", geoid)
             record == IF "relation" \in DOMAIN r1 THEN r1
                       ELSE Set(r1, "relation", default_relation(sumlevel))
         IN  apply_required(Tail(items), IF geoid = "" THEN by ELSE Set(by, sumlevel, record))

SUMLEVEL_ORDER_county_first == <<"140", "050", "860", "160", "310", "040", "010">>
SUMLEVEL_ORDER == <<"140", "860", "050", "160", "310", "040", "010">>

\* lines 248-257: one record per level of `order`, no geoid twice
RECURSIVE select_in_order(_, _, _)
select_in_order(order, by, acc) ==
    IF order = <<>> THEN acc
    ELSE LET sumlevel == Head(order)
             present == sumlevel \in DOMAIN by
             geoid == IF present THEN GetS(by[sumlevel], "geoid") ELSE ""
         IN  IF ~present \/ geoid = "" \/ geoid \in Range(acc.geoids)
             THEN select_in_order(Tail(order), by, acc)
             ELSE select_in_order(Tail(order), by,
                      [geoids |-> Append(acc.geoids, geoid),
                       records |-> Append(acc.records, by[sumlevel])])

TractOnlyRecord(tract_geoid) ==
    [k \in {"sumlevel", "relation", "geoid", "display_name"} |->
        CASE k = "sumlevel" -> "140"
          [] k = "relation" -> "this"
          [] k = "geoid" -> tract_geoid
          [] OTHER -> ""]

build_comparison_geoids_tract_appended(tract_geoid, parents, with_parents, required) ==
    IF ~with_parents
    THEN [geoids |-> <<tract_geoid>>, records |-> <<TractOnlyRecord(tract_geoid)>>]
    ELSE LET by == apply_required(required, group_by_sumlevel(parents, <<>>))
             sel == select_in_order(SUMLEVEL_ORDER, by, [geoids |-> <<>>, records |-> <<>>])
         IN  IF tract_geoid \notin Range(sel.geoids)
             THEN [geoids |-> Append(sel.geoids, tract_geoid),
                   records |-> Append(sel.records, TractOnlyRecord(tract_geoid))]
             ELSE sel
build_comparison_geoids_ignores_flag(tract_geoid, parents, with_parents, required) ==
    LET by == apply_required(set_item(required, "140", tract_geoid),
                             group_by_sumlevel(parents, <<>>))
    IN  select_in_order(SUMLEVEL_ORDER, by, [geoids |-> <<>>, records |-> <<>>])
build_comparison_geoids(tract_geoid, parents, with_parents, required) ==
    IF ~with_parents
    THEN [geoids |-> <<tract_geoid>>, records |-> <<TractOnlyRecord(tract_geoid)>>]
    ELSE LET by == apply_required(set_item(required, "140", tract_geoid),
                                  group_by_sumlevel(parents, <<>>))
             sel == select_in_order(SUMLEVEL_ORDER, by, [geoids |-> <<>>, records |-> <<>>])
         IN  IF tract_geoid \notin Range(sel.geoids)
             THEN [geoids |-> <<tract_geoid>> \o sel.geoids,
                   records |-> <<TractOnlyRecord(tract_geoid)>> \o sel.records]
             ELSE sel

(***************************************************************************)
(* The upstream services: what one client.get may give.                    *)
(***************************************************************************)
NoCall == [kind |-> "none", url |-> "", stage |-> "", fetch |-> "",
           table_ids |-> <<>>, geoids |-> <<>>]

GeocoderCall ==
    [kind |-> "geocoder",
     url |-> "https://geocoding.geo.census.gov/geocoder/geographies/coordinates",
     stage |-> "geocoder", fetch |-> "", table_ids |-> <<>>, geoids |-> <<>>]

ParentsCall(tract_geoid) ==
    [kind |-> "parents",
     url |-> "https://api.censusreporter.org/1.0/geo/latest/" \o tract_geoid \o "/parents",
     stage |-> "parents", fetch |-> "", table_ids |-> <<>>, geoids |-> <<>>]

\* fetch_data_show: one requester call for table_ids x geoids
fetch_data_show(kind, stage, fetch, tids, gids) ==
    [kind |-> kind, url |-> "https://api.censusreporter.org/1.0/data/show/latest",
     stage |-> stage, fetch |-> fetch, table_ids |-> tids, geoids |-> gids]

BulkCall(stage, tids, gids) == fetch_data_show("bulk", stage, stage, tids, gids)

\* the request of one iteration of the per-table loop
table_call_all_tables(stage, tids, i, gids) ==
    fetch_data_show("table", table_stage(stage, tids[i]), stage, tids, gids)
table_call_first_geoid(stage, tids, i, gids) ==
    fetch_data_show("table", table_stage(stage, tids[i]), stage, <<tids[i]>>, <<gids[1]>>)
table_call(stage, tids, i, gids) ==
    fetch_data_show("table", table_stage(stage, tids[i]), stage, <<tids[i]>>, gids)

NoOutcome == [kind |-> "none", status |-> 0, text |-> <<>>, json |-> NotJson]
TransportError == [kind |-> "exc", status |-> 0, text |-> Words(<<"timed", "out">>),
                   json |-> NotJson]
ErrResp(statuses, texts) ==
    {[kind |-> "resp", status |-> st, text |-> tx, json |-> NotJson] :
        st \in statuses, tx \in texts}
OkResp(statuses, jsons) ==
    {[kind |-> "resp", status |-> st, text |-> <<>>, json |-> j] :
        st \in statuses, j \in jsons}

BodyNotFound == Words(<<"Not", "Found">>)
\* the body Census Reporter answers when no release has the tables
BodyNoRelease ==
    <<P("{'error':'", "None", "")>>
        \o Words(<<"of", "the", "releases", "had", "the", "requested", "geo_ids", "and">>)
        \o <<P("", "table_ids", "'}")>>
BodyNoReleaseUpper ==
    Words(<<"NONE", "OF", "THE", "RELEASES", "HAD", "THE", "REQUESTED", "GEO_IDS", "AND",
            "TABLE_IDS">>)
\* the marker cut short
BodyNearMiss ==
    Words(<<"none", "of", "the", "releases", "had", "the", "requested", "geo_ids">>)
\* the marker behind more than 240 characters
BodyLongNoRelease ==
    Words(<<"xxxxxxxxxxxxxxxxxxxxxxxxxxxxxxxxxxxxxxxxxxxxxxxxxxxxxxxxxxxxxxxxxxxxxxxxxxxxxxxx",
            "xxxxxxxxxxxxxxxxxxxxxxxxxxxxxxxxxxxxxxxxxxxxxxxxxxxxxxxxxxxxxxxxxxxxxxxxxxxxxxxx",
            "xxxxxxxxxxxxxxxxxxxxxxxxxxxxxxxxxxxxxxxxxxxxxxxxxxxxxxxxxxxxxxxxxxxxxxxxxxxxxxxx">>)
        \o BodyNoReleaseUpper

TRACT_GEOID == "14000US55025001704"
COUNTY_GEOID == "05000US55025"
ZCTA_GEOID == "86000US53703"

GoodTract == "GEOID" :> "55025001704"
GoodCounty == "GEOID" :> "55025"
GoodZcta == "ZCTA5" :> "53703"

GeocoderPayloads ==
    { [tracts |-> <<GoodTract>>, counties |-> <<GoodCounty>>, zcta_layers |-> <<(<<GoodZcta>>)>>],
      [tracts |-> <<GoodTract>>, counties |-> <<>>, zcta_layers |-> <<>>],
      [tracts |-> <<>>, counties |-> <<GoodCounty>>, zcta_layers |-> <<>>],
      [tracts |-> <<("GEOID" :> "5502500170")>>, counties |-> <<>>,
       zcta_layers |-> <<>>],
      [tracts |-> <<("NAME" :> "Census Tract 17.04")>>, counties |-> <<>>,
       zcta_layers |-> <<>>],
      [tracts |-> <<GoodTract>>, counties |-> <<("GEOID" :> "55")>>,
       zcta_layers |-> <<>>],
      [tracts |-> <<GoodTract>>, counties |-> <<>>,
       zcta_layers |-> <<(<<>>), (<<("ZCTA5" :> "5370X")>>)>>] }

Parent(sumlevel, geoid, relation, name) ==
    [k \in {"sumlevel", "geoid", "relation", "display_name"} |->
        CASE k = "sumlevel" -> sumlevel
          [] k = "geoid" -> geoid
          [] k = "relation" -> relation
          [] OTHER -> name]

ParentsPayloads ==
    { Dict("parents" :>
            << Parent("140", TRACT_GEOID, "this", "Census Tract 17.04"),
               Parent("160", "16000US5548000", "place", "Madison city, WI"),
               Parent("050", COUNTY_GEOID, "county", "Dane County, WI"),
               Parent("040", "04000US55", "state", "Wisconsin"),
               Parent("010", "01000US", "nation", "United States") >>),
      Dict(<<>>) }

\* what /1.0/data/show answers for table_ids x geoids
DataShowPayload(tids, gids) ==
    Dict([k \in {"release", "tables", "geography", "data"} |->
            CASE k = "release" -> Str("acs2023_5yr")
              [] k = "tables" -> Dict([tid \in Range(tids) |-> Str("title")])
              [] k = "geography" -> Dict([g \in Range(gids) |-> Str("name")])
              [] OTHER -> Dict([g \in Range(gids) |->
                                  Dict([tid \in Range(tids) |-> Str("estimate")])])])

Outcomes(e, c) ==
    {TransportError} \cup
    CASE e = "request_json" ->
            ErrResp({400, 404, 429, 500, 502, 503, 504}, {BodyNotFound, BodyNoRelease})
            \cup OkResp({200, 501, 505}, {NotJson, DataShowPayload(c.table_ids, c.geoids)})
      [] e \in {"fetch", "service_fetch"} /\ c.kind = "bulk" ->
            ErrResp({400, 503}, {BodyNotFound, BodyNoRelease, BodyNoReleaseUpper,
                                 BodyNearMiss, BodyLongNoRelease})
            \cup OkResp({200}, {NotJson, DataShowPayload(c.table_ids, c.geoids)})
      [] e \in {"fetch", "service_fetch"} /\ c.kind = "table" ->
            ErrResp({400}, {BodyNotFound, BodyNoRelease})
            \cup ErrResp({503}, {BodyNotFound})
            \cup OkResp({200}, {NotJson, DataShowPayload(c.table_ids, c.geoids)})
      [] e = "lookup" /\ c.kind = "geocoder" ->
            ErrResp({400}, {BodyNotFound})
            \cup OkResp({200}, {NotJson} \cup {Dict(g) : g \in GeocoderPayloads})
      [] e = "lookup" /\ c.kind = "parents" ->
            OkResp({200}, {NotJson} \cup ParentsPayloads)
      [] e = "lookup" /\ c.kind = "bulk" ->
            ErrResp({400}, {BodyNotFound, BodyNoRelease})
            \cup ErrResp({503}, {BodyNoRelease})
            \cup OkResp({200}, {NotJson, DataShowPayload(c.table_ids, c.geoids)})
      [] e = "lookup" /\ c.kind = "table" ->
            ErrResp({400}, {BodyNotFound})
            \cup OkResp({200}, {DataShowPayload(c.table_ids, c.geoids)})
      [] OTHER -> {}

(***************************************************************************)
(* census_by_point: the endpoint's answer.                                 *)
(***************************************************************************)
NoResponse == [status |-> 0]

\* the except clauses of census_by_point; anything else is FastAPI's 500
error_status_all_502(exc) == 502
error_status(exc) ==
    CASE exc.type = "NoTractFoundError" -> 404
      [] exc.type = "UpstreamAPIError" -> 502
      [] OTHER -> 500

ErrorResponse(exc) ==
    [status |-> error_status(exc), exc_type |-> exc.type, detail |-> ExcStr(exc)]

\* the dict lookup_census_profile_by_point returns (the derived block left out)
lookup_response_errors_reversed(g, got, errs) ==
    [status |-> 200,
     tract |-> g.tract_geoid,
     comparison_geoids |-> g.comparison_geoids,
     selected |-> g.selected_parents,
     data |-> [tract_full |-> got[1].payload, comparisons |-> got[2].payload],
     errors |-> got[2].errors \o got[1].errors]
lookup_response(g, got, errs) ==
    [status |-> 200,
     tract |-> g.tract_geoid,
     comparison_geoids |-> g.comparison_geoids,
     selected |-> g.selected_parents,
     data |-> [tract_full |-> got[1].payload, comparisons |-> got[2].payload],
     errors |-> errs]

NoGeo == [tract_geoid |-> "", county_geoid |-> "", zcta_geoid |-> "",
          comparison_geoids |-> <<>>, selected_parents |-> <<>>]

(***************************************************************************)
(* Initial states: one per function the environment may call.              *)
(***************************************************************************)
Logged(c) ==
    [kind |-> c.kind, stage |-> c.stage, fetch |-> c.fetch, table_ids |-> c.table_ids,
     geoids |-> c.geoids, outcome |-> "pending", value |-> PyNone, exc |-> NoExc]

\* request_json called on its own
InitRequest ==
    /\ entry = "request_json"
    /\ retries \in 0..MaxRetries
    /\ pc = "request"
    /\ include_parents = TRUE
    /\ call \in {GeocoderCall, BulkCall("tract_full", FirstTables(1), <<TRACT_GEOID>>)}
    /\ requests = <<Logged(call)>>
    /\ attempt = 0 /\ last_error = NoExc /\ result = NoResult
    /\ gets = 0 /\ sleeps = <<>> /\ lastOutcome = NoOutcome /\ lastSlept = FALSE
    /\ fstage = "" /\ table_ids = <<>> /\ geoids = <<>> /\ degraded = FALSE /\ idx = 0
    /\ merged = new_empty_data_show_payload /\ ferrors = <<>> /\ successful_tables = 0
    /\ fresult = NoFetchResult
    /\ geo = NoGeo /\ errors = <<>> /\ fetched = <<>> /\ response = NoResponse
    /\ base0 = <<>> /\ base = <<>> /\ incoming = <<>> /\ once = <<>> /\ merges = 0
    /\ args = <<>> /\ ret = <<>>
    /\ CACHE = <<>> /\ clock = 0

\* fetch_data_show_resilient called on its own
InitFetch ==
    /\ entry = "fetch"
    /\ retries \in 0..MaxLookupRetries
    /\ pc = "bulk"
    /\ include_parents = TRUE
    /\ \E n \in 1..NumTables :
          \/ /\ fstage = "tract_full" /\ geoids = <<TRACT_GEOID>>
             /\ table_ids = FirstTables(n)
          \/ /\ fstage = "comparisons" /\ geoids = <<TRACT_GEOID, COUNTY_GEOID>>
             /\ table_ids = FirstTables(n)
    /\ call = BulkCall(fstage, table_ids, geoids)
    /\ requests = <<Logged(call)>>
    /\ attempt = 0 /\ last_error = NoExc /\ result = NoResult
    /\ gets = 0 /\ sleeps = <<>> /\ lastOutcome = NoOutcome /\ lastSlept = FALSE
    /\ degraded = FALSE /\ idx = 0
    /\ merged = new_empty_data_show_payload /\ ferrors = <<>> /\ successful_tables = 0
    /\ fresult = NoFetchResult
    /\ geo = NoGeo /\ errors = <<>> /\ fetched = <<>> /\ response = NoResponse
    /\ base0 = <<>> /\ base = <<>> /\ incoming = <<>> /\ once = <<>> /\ merges = 0
    /\ args = <<>> /\ ret = <<>>
    /\ CACHE = <<>> /\ clock = 0

\* census_service.fetch_data_show_resilient called on one geoid
InitServiceFetch ==
    /\ entry = "service_fetch"
    /\ retries \in 0..MaxLookupRetries
    /\ pc = "bulk"
    /\ include_parents = TRUE
    /\ fstage = "data_show" /\ geoids \in {<<TRACT_GEOID>>, <<COUNTY_GEOID>>}
    /\ \E n \in 1..NumTables : table_ids = FirstTables(n)
    /\ call = BulkCall(fstage, table_ids, geoids)
    /\ requests = <<Logged(call)>>
    /\ attempt = 0 /\ last_error = NoExc /\ result = NoResult
    /\ gets = 0 /\ sleeps = <<>> /\ lastOutcome = NoOutcome /\ lastSlept = FALSE
    /\ degraded = FALSE /\ idx = 0
    /\ merged = new_empty_data_show_payload /\ ferrors = <<>> /\ successful_tables = 0
    /\ fresult = NoFetchResult
    /\ geo = NoGeo /\ errors = <<>> /\ fetched = <<>> /\ response = NoResponse
    /\ base0 = <<>> /\ base = <<>> /\ incoming = <<>> /\ once = <<>> /\ merges = 0
    /\ args = <<>> /\ ret = <<>>
    /\ CACHE = <<>> /\ clock = 0

\* GET /api/census/by-point
Init ==
    /\ entry = "lookup"
    /\ retries \in 0..MaxLookupRetries
    /\ pc = "geocoder"
    /\ include_parents \in BOOLEAN
    /\ call = GeocoderCall
    /\ requests = <<Logged(call)>>
    /\ attempt = 0 /\ last_error = NoExc /\ result = NoResult
    /\ gets = 0 /\ sleeps = <<>> /\ lastOutcome = NoOutcome /\ lastSlept = FALSE
    /\ fstage = "" /\ table_ids = <<>> /\ geoids = <<>> /\ degraded = FALSE /\ idx = 0
    /\ merged = new_empty_data_show_payload /\ ferrors = <<>> /\ successful_tables = 0
    /\ fresult = NoFetchResult
    /\ geo = NoGeo /\ errors = <<>> /\ fetched = <<>> /\ response = NoResponse
    /\ base0 = <<>> /\ base = <<>> /\ incoming = <<>> /\ once = <<>> /\ merges = 0
    /\ args = <<>> /\ ret = <<>>
    /\ CACHE = <<>> /\ clock = 0

(***************************************************************************)
(* Actions.                                                                *)
(***************************************************************************)
\* requester_fn(...) is entered: request_json starts its loop
StartCall(c) ==
    /\ call' = c
    /\ attempt' = 0 /\ last_error' = NoExc /\ result' = NoResult
    /\ gets' = 0 /\ sleeps' = <<>> /\ lastOutcome' = NoOutcome /\ lastSlept' = FALSE
    /\ requests' = Append(requests, Logged(c))

SetFetch(st, tids, gids, deg, i, m, errs, succ, fr) ==
    /\ fstage' = st /\ table_ids' = tids /\ geoids' = gids
    /\ degraded' = deg /\ idx' = i /\ merged' = m /\ ferrors' = errs
    /\ successful_tables' = succ /\ fresult' = fr

\* fetch_data_show_resilient is entered: its bulk request goes out
StartFetch(st, tids, gids) ==
    /\ SetFetch(st, tids, gids, FALSE, 0, new_empty_data_show_payload, <<>>, 0,
                NoFetchResult)
    /\ StartCall(BulkCall(st, tids, gids))
    /\ pc' = "bulk"

\* the lookup ends with an exception, which census_by_point turns into a status
Respond(r) ==
    /\ response' = r
    /\ pc' = "done"

\* the table lists the lookup passes to its two fetches, cut to the model's size
LookupTables(tables) == SubSeq(tables, 1, Min(NumLookupTables, Len(tables)))

\* One iteration of request_json's loop: a GET, then a sleep and another
\* iteration, or the end of the call.
request_json_attempt(r) ==
    /\ result = NoResult
    /\ attempt <= r
    /\ \E o \in Outcomes(entry, call) :
          LET step == request_json_step(call.stage, attempt, r, o) IN
          /\ lastOutcome' = o
          /\ gets' = gets + 1
          /\ last_error' = step.last_error
          /\ result' = step.result
          /\ lastSlept' = step.retry
          /\ sleeps' = IF step.retry THEN Append(sleeps, backoff_seconds(attempt)) ELSE sleeps
          /\ attempt' = IF step.retry THEN attempt + 1 ELSE attempt
          /\ requests' = IF step.result = NoResult THEN requests
                         ELSE [requests EXCEPT ![Len(requests)].outcome = step.result.kind,
                                               ![Len(requests)].value = step.result.value,
                                               ![Len(requests)].exc = step.result.exc]
    /\ UNCHANGED <<entry, retries, include_parents, call, fetchVars, pc, lookupVars,
                   mergeVars, pureVars, poiVars>>

Attempt_one_too_many ==
    /\ call # NoCall
    /\ request_json_attempt(retries + 1)
Attempt ==
    /\ call # NoCall
    /\ request_json_attempt(retries)

\* the per-table loop goes on to its next entry
table_loop_continues_until_failure(i, n, ok) == i < n /\ ok
table_loop_continues(i, n, ok) == i < n

\* fetch_data_show_resilient ends with fr; its caller goes on
FetchEnds(fr, deg, i, m, errs, succ) ==
    IF entry \in {"fetch", "service_fetch"}
    THEN /\ SetFetch(fstage, table_ids, geoids, deg, i, m, errs, succ, fr)
         /\ pc' = "done"
         /\ UNCHANGED <<requestVars, requests, lookupVars>>
    ELSE IF fr.kind = "raise"
    THEN /\ SetFetch(fstage, table_ids, geoids, deg, i, m, errs, succ, fr)
         /\ Respond(ErrorResponse(fr.exc))
         /\ UNCHANGED <<requestVars, requests, geo, errors, fetched>>
    ELSE LET got == Append(fetched, [stage |-> fstage, payload |-> fr.payload,
                                     errors |-> fr.errors])
             errs2 == errors \o fr.errors
         IN
         /\ fetched' = got
         /\ errors' = errs2
         /\ geo' = geo
         /\ IF fstage = "tract_full"
            THEN /\ StartFetch("comparisons", LookupTables(COMPARISON_TABLES),
                               geo.comparison_geoids)
                 /\ response' = response
            ELSE /\ SetFetch(fstage, table_ids, geoids, deg, i, m, errs, succ, fr)
                 /\ Respond(lookup_response(geo, got, errs2))
                 /\ UNCHANGED <<requestVars, requests>>

\* the test of the `except UpstreamAPIError` clause after the bulk request,
\* in census_service.py and in census_profile_service.py
enters_fallback(exc) ==
    IF entry = "service_fetch"
    THEN looks_like_no_release_error(ExcStr(exc))
    ELSE marker_in_message(exc)

\* lines 335-353: the bulk request is over
BulkReturned ==
    /\ pc = "bulk"
    /\ result # NoResult
    /\ IF result.kind = "return"
       THEN FetchEnds(FetchReturn(result.value.v, <<>>), FALSE, 0, merged, <<>>, 0)
       ELSE IF ~enters_fallback(result.exc)
       THEN FetchEnds(FetchRaise(result.exc), FALSE, 0, merged, <<>>, 0)
       ELSE IF table_ids = <<>>
       THEN FetchEnds(fetch_finish(fstage, table_ids, new_empty_data_show_payload, <<>>, 0),
                      TRUE, 0, new_empty_data_show_payload, <<>>, 0)
       ELSE /\ SetFetch(fstage, table_ids, geoids, TRUE, 1, new_empty_data_show_payload,
                        <<>>, 0, NoFetchResult)
            /\ StartCall(table_call(fstage, table_ids, 1, geoids))
            /\ pc' = "tables"
            /\ UNCHANGED lookupVars
    /\ UNCHANGED <<entry, retries, include_parents, mergeVars, pureVars, poiVars>>

\* lines 355-393: one per-table request is over
TableReturned ==
    /\ pc = "tables"
    /\ result # NoResult
    /\ LET ok == result.kind = "return"
           m == IF ok THEN merge_data_show_payload(merged, result.value.v) ELSE merged
           succ == IF ok THEN successful_tables + 1 ELSE successful_tables
           errs == IF ok THEN ferrors
                   ELSE Append(ferrors, table_error_entry(fstage, table_ids[idx], result.exc))
       IN  IF table_loop_continues(idx, Len(table_ids), ok)
           THEN /\ SetFetch(fstage, table_ids, geoids, TRUE, idx + 1, m, errs, succ,
                            NoFetchResult)
                /\ StartCall(table_call(fstage, table_ids, idx + 1, geoids))
                /\ pc' = "tables"
                /\ UNCHANGED lookupVars
           ELSE FetchEnds(fetch_finish(fstage, table_ids, m, errs, succ),
                          TRUE, idx, m, errs, succ)
    /\ UNCHANGED <<entry, retries, include_parents, mergeVars, pureVars, poiVars>>

\* lines 1596-1640 after the geocoder request
GeocoderReturned ==
    /\ pc = "geocoder"
    /\ result # NoResult
    /\ IF result.kind = "raise"
       THEN /\ Respond(ErrorResponse(result.exc))
            /\ UNCHANGED <<requestVars, requests, fetchVars, geo>>
       ELSE LET r == resolve_geocoder(result.value.v) IN
            IF ~r.ok
            THEN /\ Respond(ErrorResponse(r.exc))
                 /\ UNCHANGED <<requestVars, requests, fetchVars, geo>>
            ELSE IF ~include_parents
            THEN LET sel == build_comparison_geoids(r.v.tract_geoid, <<>>, FALSE,
                                required_geoids_by_sumlevel(r.v.zcta_geoid,
                                                            r.v.county_geoid))
                 IN  /\ geo' = [tract_geoid |-> r.v.tract_geoid,
                                county_geoid |-> r.v.county_geoid,
                                zcta_geoid |-> r.v.zcta_geoid,
                                comparison_geoids |-> sel.geoids,
                                selected_parents |-> sel.records]
                     /\ StartFetch("tract_full", LookupTables(FULL_TRACT_TABLES),
                                   <<r.v.tract_geoid>>)
                     /\ response' = response
            ELSE /\ geo' = [tract_geoid |-> r.v.tract_geoid,
                            county_geoid |-> r.v.county_geoid,
                            zcta_geoid |-> r.v.zcta_geoid,
                            comparison_geoids |-> <<>>,
                            selected_parents |-> <<>>]
                 /\ StartCall(ParentsCall(r.v.tract_geoid))
                 /\ pc' = "parents"
                 /\ response' = response
                 /\ UNCHANGED fetchVars
    /\ UNCHANGED <<entry, retries, include_parents, errors, fetched, mergeVars, pureVars, poiVars>>

\* lines 1634-1650 after the parents request
ParentsReturned ==
    /\ pc = "parents"
    /\ result # NoResult
    /\ IF result.kind = "raise"
       THEN /\ Respond(ErrorResponse(result.exc))
            /\ UNCHANGED <<requestVars, requests, fetchVars, geo>>
       ELSE LET parents_available == IF "parents" \in DOMAIN result.value.v
                                     THEN result.value.v["parents"] ELSE <<>>
                sel == build_comparison_geoids(geo.tract_geoid, parents_available, TRUE,
                            required_geoids_by_sumlevel(geo.zcta_geoid, geo.county_geoid))
            IN  /\ geo' = [geo EXCEPT !.comparison_geoids = sel.geoids,
                                      !.selected_parents = sel.records]
                /\ StartFetch("tract_full", LookupTables(FULL_TRACT_TABLES),
                              <<geo.tract_geoid>>)
                /\ response' = response
    /\ UNCHANGED <<entry, retries, include_parents, errors, fetched, mergeVars, pureVars, poiVars>>

NextRequest == Attempt

NextFetch == Attempt \/ BulkReturned \/ TableReturned

Next == Attempt \/ GeocoderReturned \/ ParentsReturned \/ BulkReturned \/ TableReturned

SpecRequest == InitRequest /\ [][NextRequest]_vars

SpecFetch == InitFetch /\ [][NextFetch]_vars

Spec == Init /\ [][Next]_vars

SpecServiceFetch == InitServiceFetch /\ [][NextFetch]_vars

\* a fetch called alone, or a whole lookup
SpecFetchOrLookup == (InitFetch \/ Init) /\ [][Next]_vars

(***************************************************************************)
(* merge_data_show_payload exercised alone: merge `incoming` into `base`,  *)
(* then once more.                                                         *)
(***************************************************************************)
\* a dict with the keys of `present` only
Payload(rel, tabs, geog, dat, present) ==
    [k \in present |->
        CASE k = "release" -> rel
          [] k = "tables" -> tabs
          [] k = "geography" -> geog
          [] OTHER -> dat]

SampleReleases == {PyNone, Str("acs2023_5yr"), Str("acs2022_1yr")}
SampleTables ==
    {PyNone, EmptyDict, Dict("B01003" :> Str("title")),
     Dict(("B01003" :> Str("title2")) @@ ("B19013" :> Str("title"))),
     Dict("B01003" :> Dict("title" :> Str("Total Population"))),
     Dict("B01003" :> Dict("universe" :> Str("Total Population")))}
SampleGeography == {EmptyDict, Dict(TRACT_GEOID :> Str("name"))}
SampleData ==
    {PyNone, EmptyDict,
     Dict(TRACT_GEOID :> PyNone),
     Dict(TRACT_GEOID :> Dict("B01003" :> Str("estimate"))),
     Dict(TRACT_GEOID :> Dict("B01003" :> Dict("estimate" :> Str("8835")))),
     Dict(TRACT_GEOID :> Dict("B01003" :> Dict("error" :> Str("512")))),
     Dict(TRACT_GEOID :> Dict(("B01003" :> Str("estimate2")) @@ ("B19013" :> Str("estimate")))),
     Dict((TRACT_GEOID :> Dict("B19013" :> Str("estimate")))
          @@ (COUNTY_GEOID :> Dict("B01003" :> Str("estimate"))))}
SampleKeys ==
    {{"release", "tables", "geography", "data"}, {"release", "data"}, {"tables", "data"}}

SamplePayloads ==
    {Payload(rel, tabs, geog, dat, present) :
        rel \in SampleReleases, tabs \in SampleTables, geog \in SampleGeography,
        dat \in SampleData, present \in SampleKeys}

InitMerge ==
    /\ entry = "merge"
    /\ retries = 0
    /\ pc = "merge"
    /\ include_parents = TRUE
    /\ call = NoCall
    /\ requests = <<>>
    /\ attempt = 0 /\ last_error = NoExc /\ result = NoResult
    /\ gets = 0 /\ sleeps = <<>> /\ lastOutcome = NoOutcome /\ lastSlept = FALSE
    /\ fstage = "" /\ table_ids = <<>> /\ geoids = <<>> /\ degraded = FALSE /\ idx = 0
    /\ merged = new_empty_data_show_payload /\ ferrors = <<>> /\ successful_tables = 0
    /\ fresult = NoFetchResult
    /\ geo = NoGeo /\ errors = <<>> /\ fetched = <<>> /\ response = NoResponse
    /\ base0 \in SamplePayloads
    /\ incoming \in SamplePayloads
    /\ base = base0 /\ once = base0 /\ merges = 0
    /\ args = <<>> /\ ret = <<>>
    /\ CACHE = <<>> /\ clock = 0

\* merge_data_show_payload(base, incoming)
MergeStep ==
    /\ entry = "merge"
    /\ merges < 2
    /\ base' = merge_data_show_payload(base, incoming)
    /\ once' = IF merges = 0 THEN base' ELSE once
    /\ merges' = merges + 1
    /\ UNCHANGED <<entry, retries, include_parents, requestVars, fetchVars, pc, lookupVars,
                   requests, base0, incoming, pureVars, poiVars>>

NextMerge == MergeStep

SpecMerge == InitMerge /\ [][NextMerge]_vars

(***************************************************************************)
(* Pure functions exercised alone: `args` holds the arguments, the action  *)
(* applies the function and leaves what it returned in `ret`.              *)
(***************************************************************************)
\* everything but the function's own frame is at rest
InitIdle(e) ==
    /\ entry = e
    /\ retries = 0
    /\ pc = "call"
    /\ include_parents = TRUE
    /\ call = NoCall
    /\ requests = <<>>
    /\ attempt = 0 /\ last_error = NoExc /\ result = NoResult
    /\ gets = 0 /\ sleeps = <<>> /\ lastOutcome = NoOutcome /\ lastSlept = FALSE
    /\ fstage = "" /\ table_ids = <<>> /\ geoids = <<>> /\ degraded = FALSE /\ idx = 0
    /\ merged = new_empty_data_show_payload /\ ferrors = <<>> /\ successful_tables = 0
    /\ fresult = NoFetchResult
    /\ geo = NoGeo /\ errors = <<>> /\ fetched = <<>> /\ response = NoResponse
    /\ base0 = <<>> /\ base = <<>> /\ incoming = <<>> /\ once = <<>> /\ merges = 0
    /\ ret = <<>>
    /\ CACHE = <<>> /\ clock = 0

\* the function returns
Returns(value) ==
    /\ pc = "call"
    /\ ret' = value
    /\ pc' = "return"
    /\ UNCHANGED <<entry, retries, include_parents, requestVars, fetchVars, lookupVars,
                   requests, mergeVars, args, poiVars>>

(***************************************************************************)
(* The accumulation of fetch_data_show_resilient's table loop: the         *)
(* payloads of the successful requests merged one after the other into an  *)
(* empty payload, here in every order.                                     *)
(***************************************************************************)
RECURSIVE merge_all(_, _)
merge_all(payloads, acc) ==
    IF payloads = <<>> THEN acc
    ELSE merge_all(Tail(payloads), merge_data_show_payload(acc, Head(payloads)))

Orders(n) == {f \in [1..n -> 1..n] : \A i, j \in 1..n : f[i] = f[j] => i = j}

\* what /1.0/data/show answers for the tables `tids`
TablePayload(tids, release, gids, name) ==
    [k \in {"release", "tables", "geography", "data"} |->
        CASE k = "release" -> release
          [] k = "tables" -> Dict([tid \in tids |-> Str("title")])
          [] k = "geography" -> Dict([g \in gids |-> Str(name)])
          [] OTHER -> Dict([g \in gids |-> Dict([tid \in tids |-> Str("estimate")])])]

TablePayloads(tids) ==
    {TablePayload(tids, release, shape[1], shape[2]) :
        release \in SampleReleases,
        shape \in {<<{TRACT_GEOID}, "name">>, <<{TRACT_GEOID, COUNTY_GEOID}, "name">>,
                   <<{TRACT_GEOID}, "name (2022)">>}}

TableSets == SUBSET Range(FirstTables(NumTables)) \ {{}}

InitMergeOrder ==
    /\ InitIdle("merge_order")
    /\ \/ \E t1, t2 \in TableSets :
             /\ t1 \cap t2 = {}
             /\ \E p1 \in TablePayloads(t1), p2 \in TablePayloads(t2) : args = <<p1, p2>>
       \/ \E t1, t2, t3 \in TableSets :
             /\ t1 \cap t2 = {} /\ t1 \cap t3 = {} /\ t2 \cap t3 = {}
             /\ \E p1 \in TablePayloads(t1), p2 \in TablePayloads(t2),
                   p3 \in TablePayloads(t3) : args = <<p1, p2, p3>>

\* the payloads merged into an empty accumulator, once per order
MergeInEveryOrder ==
    /\ entry = "merge_order"
    /\ Returns({merge_all([i \in 1..Len(args) |-> args[f[i]]], new_empty_data_show_payload) :
                   f \in Orders(Len(args))})

SpecMergeOrder == InitMergeOrder /\ [][MergeInEveryOrder]_vars

(***************************************************************************)
(* build_comparison_geoids exercised alone, on the ancestors that          *)
(* /1.0/geo/latest/<geoid>/parents may list and the overrides the lookup   *)
(* builds from the geocoder's county and ZCTA.                             *)
(***************************************************************************)
PLACE_GEOID == "16000US5548000"
STATE_GEOID == "04000US55"
NATION_GEOID == "01000US"

AncestorsExample ==
    << Parent("140", TRACT_GEOID, "this", "Census Tract 17.04"),
       Parent("160", PLACE_GEOID, "place", "Madison city, WI"),
       Parent("050", COUNTY_GEOID, "county", "Dane County, WI"),
       Parent("040", STATE_GEOID, "state", "Wisconsin"),
       Parent("010", NATION_GEOID, "nation", "United States") >>

ParentCandidates ==
    Range(AncestorsExample) \cup
    { Parent("40", "04000US17", "state", "Illinois"),
      Parent("160", COUNTY_GEOID, "place", "Madison city-county"),
      Parent("140", "14000US55025001600", "this", "Census Tract 16"),
      Parent("860", "86000US53715", "zcta", "53715"),
      Parent("310", "31000US31540", "metro", "Madison, WI Metro Area"),
      Parent("950", "95000US5508520", "school", "Madison Metropolitan School District"),
      Parent("", "04000US27", "state", "Minnesota"),
      ("sumlevel" :> "050") @@ ("full_geoid" :> "05000US55021")
          @@ ("display_name" :> "Columbia County, WI"),
      ("sumlevel" :> "050") @@ ("relation" :> "county")
          @@ ("display_name" :> "Green County, WI") }

RECURSIVE SeqsUpTo(_, _)
SeqsUpTo(S, n) ==
    IF n = 0 THEN {<<>>}
    ELSE LET shorter == SeqsUpTo(S, n - 1) IN
         shorter \cup {Append(q, x) : q \in shorter, x \in S}

InitComparisonGeoids ==
    /\ InitIdle("build_comparison_geoids")
    /\ \E parents \in SeqsUpTo(ParentCandidates, MaxParents) \cup {AncestorsExample},
          with_parents \in BOOLEAN,
          zcta_geoid \in {"", ZCTA_GEOID}, county_geoid \in {"", COUNTY_GEOID} :
          args = [tract_geoid |-> TRACT_GEOID, parents |-> parents,
                  include_parents |-> with_parents,
                  required |-> required_geoids_by_sumlevel(zcta_geoid, county_geoid)]

BuildComparisonGeoids ==
    /\ entry = "build_comparison_geoids"
    /\ Returns(build_comparison_geoids(args.tract_geoid, args.parents,
                                       args.include_parents, args.required))

SpecComparisonGeoids == InitComparisonGeoids /\ [][BuildComparisonGeoids]_vars

(***************************************************************************)
(* _ratio_phrase.  A ratio is the quotient num / den of two numbers, as    *)
(* _comparison_lines_for_metric computes it; the thresholds are in         *)
(* hundredths.                                                             *)
(***************************************************************************)
\* ratio >= hundredths / 100
ratio_at_least_strict(num, den, hundredths) ==
    IF den > 0 THEN num * 100 > hundredths * den ELSE num * 100 < hundredths * den
ratio_at_least(num, den, hundredths) ==
    IF den > 0 THEN num * 100 >= hundredths * den ELSE num * 100 =< hundredths * den

ratio_phrase(num, den) ==
    IF ratio_at_least(num, den, 200) THEN "more than double"
    ELSE IF ratio_at_least(num, den, 150) THEN "about one-and-a-half times"
    ELSE IF ratio_at_least(num, den, 120) THEN "about 20 percent higher than"
    ELSE IF ratio_at_least(num, den, 90) THEN "about the same as"
    ELSE IF ratio_at_least(num, den, 75) THEN "about three-quarters of"
    ELSE IF ratio_at_least(num, den, 60) THEN "about two-thirds of"
    ELSE IF ratio_at_least(num, den, 45) THEN "about half"
    ELSE IF ratio_at_least(num, den, 30) THEN "about one-third of"
    ELSE IF ratio_at_least(num, den, 15) THEN "about one-fifth of"
    ELSE "less than 20 percent of"

InitRatioPhrase ==
    /\ InitIdle("_ratio_phrase")
    /\ \/ \E num \in 1..MaxRatio, den \in {1, 3, 20, 100} : args = [num |-> num, den |-> den]
       \/ args = [num |-> 30683, den |-> 78050]

RatioPhrase ==
    /\ entry = "_ratio_phrase"
    /\ Returns(ratio_phrase(args.num, args.den))

SpecRatioPhrase == InitRatioPhrase /\ [][RatioPhrase]_vars

(***************************************************************************)
(* _comparison_lines_for_metric.  A number is Num(n), None is PyNone; a    *)
(* ratio is kept as the pair of the two numbers divided.                   *)
(***************************************************************************)
Num(n) == [t |-> "num", v |-> n]

METRIC_RELATIONS_DEFAULT_with_this == <<"this", "place", "county", "state", "nation">>
METRIC_RELATIONS_DEFAULT == <<"place", "county", "state", "nation">>

\* str(parent.get("relation") or "").lower().strip()
relation_of(parent) ==
    LET lowered == LowerCore(GetS(parent, "relation")) IN
    CASE lowered = " nation" -> "nation"
      [] lowered = "state " -> "state"
      [] OTHER -> lowered

\* compare_value in (None, 0)
no_compare_value_none_only(value) == value = PyNone
no_compare_value(value) == value = PyNone \/ value = Num(0)

comparison_line(geoid, relation, tract_value, compare_value, geography_lookup) ==
    [geoid |-> geoid,
     relation |-> relation,
     place_name |-> IF geoid \in DOMAIN geography_lookup /\ geography_lookup[geoid] # ""
                    THEN geography_lookup[geoid] ELSE geoid,
     comparison_value |-> compare_value,
     ratio |-> [num |-> tract_value.v, den |-> compare_value.v],
     phrase |-> ratio_phrase(tract_value.v, compare_value.v)]

\* the loop of lines 571-607; a division by zero ends it with the exception
RECURSIVE comparison_lines_loop(_, _, _, _)
comparison_lines_loop(a, parents, relation_seen, lines) ==
    IF parents = <<>> THEN [exc |-> "none", lines |-> lines]
    ELSE LET parent == Head(parents)
             relation == relation_of(parent)
             geoid == GetS(parent, "geoid")
             compare_value == IF geoid \in DOMAIN a.comparison_values
                              THEN a.comparison_values[geoid] ELSE PyNone
         IN  IF relation \notin Range(a.allowed_relations) \/ relation \in relation_seen
             THEN comparison_lines_loop(a, Tail(parents), relation_seen, lines)
             ELSE IF no_compare_value(compare_value)
             THEN comparison_lines_loop(a, Tail(parents), relation_seen \cup {relation}, lines)
             ELSE IF compare_value.v = 0
             THEN [exc |-> "ZeroDivisionError", lines |-> <<>>]
             ELSE comparison_lines_loop(a, Tail(parents), relation_seen \cup {relation},
                      Append(lines, comparison_line(geoid, relation, a.tract_value,
                                                    compare_value, a.geography_lookup)))

comparison_lines_for_metric(a) ==
    IF a.tract_value = PyNone THEN [exc |-> "none", lines |-> <<>>]
    ELSE comparison_lines_loop(a, a.selected_parents, {}, <<>>)

SelectedParents ==
    { Parent("140", TRACT_GEOID, "this", "Census Tract 17.04"),
      Parent("860", ZCTA_GEOID, "zcta", "53703"),
      Parent("160", PLACE_GEOID, "place", "Madison city, WI"),
      Parent("050", COUNTY_GEOID, "county", "Dane County, WI"),
      Parent("050", "05000US55021", "County", "Columbia County, WI"),
      Parent("310", "31000US31540", "metro", "Madison, WI Metro Area"),
      Parent("040", STATE_GEOID, "state ", "Wisconsin"),
      Parent("040", "04000US17", "STATE", "Illinois"),
      Parent("010", NATION_GEOID, " nation", "United States"),
      ("sumlevel" :> "160") @@ ("geoid" :> "16000US5553000") }

ComparisonValues ==
    { [g \in {TRACT_GEOID, ZCTA_GEOID, PLACE_GEOID, COUNTY_GEOID, "05000US55021",
              "31000US31540", STATE_GEOID, "04000US17", NATION_GEOID, "16000US5553000"}
         |-> Num(78050)],
      (TRACT_GEOID :> Num(30683)) @@ (PLACE_GEOID :> Num(0)) @@ (COUNTY_GEOID :> PyNone)
         @@ ("05000US55021" :> Num(70000)) @@ (STATE_GEOID :> Num(72458))
         @@ ("04000US17" :> Num(0)) @@ (NATION_GEOID :> Num(75149)),
      (PLACE_GEOID :> Num(-6666)) @@ (STATE_GEOID :> Num(0))
         @@ ("04000US17" :> Num(78433)) @@ (NATION_GEOID :> PyNone) }

InitComparisonLines ==
    /\ InitIdle("_comparison_lines_for_metric")
    /\ \E tract_value \in {PyNone, Num(0), Num(30683)},
          comparison_values \in ComparisonValues,
          selected_parents \in SeqsUpTo(SelectedParents, MaxParents) :
          args = [tract_value |-> tract_value,
                  comparison_values |-> comparison_values,
                  selected_parents |-> selected_parents,
                  geography_lookup |-> (PLACE_GEOID :> "Madison city, WI")
                                          @@ (STATE_GEOID :> "Wisconsin"),
                  allowed_relations |-> METRIC_RELATIONS_DEFAULT]

ComparisonLines ==
    /\ entry = "_comparison_lines_for_metric"
    /\ Returns(comparison_lines_for_metric(args))

SpecComparisonLines == InitComparisonLines /\ [][ComparisonLines]_vars

(***************************************************************************)
(* scripts_sumedh/overpass_pois.py: get_overpass_pois and its cache.       *)
(* Latitudes and longitudes are in ten-thousandths of a degree, cache keys *)
(* in thousandths; of a result the model keeps its `meta` block.           *)
(***************************************************************************)
CACHE_TTL == 3600

\* round(x, 3), for x that is not half-way between two thousandths
round3(x) == IF x >= 0 THEN (x + 5) \div 10 ELSE -((5 - x) \div 10)

cache_key(lat, lng, radius_m) == <<round3(lat), round3(lng), radius_m>>

\* the requests the model makes: three points, two of them with one key
PoiRequests == {<<430731, -894012, 800>>, <<430734, -894012, 800>>,
                <<430738, -894012, 800>>}

\* _fetch_overpass: the elements of the first endpoint that answers, or
\* RuntimeError when none does
OverpassOutcomes == {[ok |-> FALSE, elements |-> 0]} \cup
                    {[ok |-> TRUE, elements |-> n] : n \in {0, 3}}

RuntimeError ==
    [type |-> "RuntimeError", stage |-> "",
     message |-> Words(<<"Overpass", "request", "failed", "for", "all", "endpoints">>)]

\* one request to get_overpass_pois
get_overpass_pois(lat, lng, radius_m, o) ==
    LET key == cache_key(lat, lng, radius_m)
        now == clock
        cached == Get(CACHE, key)
    IN  /\ args' = <<lat, lng, radius_m>>
        /\ IF cached # PyNone /\ now - cached.ts < CACHE_TTL
           THEN /\ CACHE' = Set(CACHE, key, [t |-> "entry", ts |-> now, data |-> cached.data])
                /\ ret' = Return([cached.data EXCEPT !.cached = TRUE, !.ts = now])
           ELSE IF o.ok
           THEN LET res == [total_elements |-> o.elements, radius_m |-> radius_m,
                            cached |-> FALSE, ts |-> now]
                IN  /\ CACHE' = Set(CACHE, key, [t |-> "entry", ts |-> now, data |-> res])
                    /\ ret' = Return(res)
           ELSE /\ CACHE' = CACHE
                /\ ret' = Raise(RuntimeError)

InitPois == InitIdle("pois") /\ args = <<>>

GetOverpassPois ==
    /\ entry = "pois"
    /\ \E r \in PoiRequests, o \in OverpassOutcomes : get_overpass_pois(r[1], r[2], r[3], o)
    /\ UNCHANGED <<entry, retries, include_parents, requestVars, fetchVars, pc, lookupVars,
                   requests, mergeVars, clock>>

\* time passes between two requests
Tick ==
    /\ entry = "pois"
    /\ \E d \in {1800, 3599} : clock + d <= MaxClock /\ clock' = clock + d
    /\ UNCHANGED <<entry, retries, include_parents, requestVars, fetchVars, pc, lookupVars,
                   requests, mergeVars, pureVars, CACHE>>

NextPois == GetOverpassPois \/ Tick

SpecPois == InitPois /\ [][NextPois]_vars

(***************************************************************************)
(* The derived block: get_estimate, pct, _metric_block, the section        *)
(* builders, _metric_extractors, compute_highlights_for_geoid and          *)
(* build_derived.  A payload is a function of its keys; a number is Num(n) *)
(* with n an integer, and the payloads of this model keep every percentage *)
(* a whole number, as the floats of the code are for them.                 *)
(***************************************************************************)
\* d.get(k, {})
GetD(d, k) == IF k \in DOMAIN d THEN d[k] ELSE <<>>

Abs(n) == IF n < 0 THEN -n ELSE n

\* isinstance(value, (int, float))
IsNumber(value) == value.t = "num"

get_estimate(payload, geoid, table_id, column_id) ==
    LET value == Get(GetD(GetD(GetD(GetD(payload, "data"), geoid), table_id), "estimate"),
                     column_id)
    IN  IF IsNumber(value) THEN value ELSE PyNone

get_moe(payload, geoid, table_id, column_id) ==
    LET value == Get(GetD(GetD(GetD(GetD(payload, "data"), geoid), table_id), "error"),
                     column_id)
    IN  IF IsNumber(value) THEN value ELSE PyNone

RECURSIVE sum_estimates_loop(_, _, _, _, _, _)
sum_estimates_loop(payload, geoid, table_id, column_ids, total, has_any) ==
    IF column_ids = <<>> THEN (IF has_any THEN Num(total) ELSE PyNone)
    ELSE LET value == get_estimate(payload, geoid, table_id, Head(column_ids)) IN
         IF value = PyNone
         THEN sum_estimates_loop(payload, geoid, table_id, Tail(column_ids), total, has_any)
         ELSE sum_estimates_loop(payload, geoid, table_id, Tail(column_ids),
                                 total + value.v, TRUE)

sum_estimates(payload, geoid, table_id, column_ids) ==
    sum_estimates_loop(payload, geoid, table_id, column_ids, 0, FALSE)

\* (float(part) / float(whole)) * 100.0
pct(part, whole) ==
    IF part = PyNone \/ whole = PyNone \/ whole = Num(0) THEN PyNone
    ELSE Num((part.v * 100) \div whole.v)

normalize_median_keeps_negative(value) == value
normalize_median(value) == IF IsNumber(value) /\ value.v < 0 THEN PyNone ELSE value

\* _metric_block; moe_override and universe_override change nothing modelled
\* here.  moe_ratio is kept as the pair |moe|, |estimate|.
metric_block(payload, geoid, metric_id, table_id, column_id, format_hint, value_override, treat_negative_as_null) ==
    LET raw == IF value_override = PyNone
               THEN get_estimate(payload, geoid, table_id, column_id)
               ELSE value_override
        moe == get_moe(payload, geoid, table_id, column_id)
        estimate == IF treat_negative_as_null THEN normalize_median(raw) ELSE raw
        moe_ratio == IF IsNumber(estimate) /\ IsNumber(moe) /\ estimate.v # 0
                     THEN [num |-> Abs(moe.v), den |-> Abs(estimate.v)]
                     ELSE PyNone
    IN  [id |-> metric_id, table_id |-> table_id, column_id |-> column_id,
         estimate |-> estimate, moe |-> moe, moe_ratio |-> moe_ratio,
         high_moe |-> moe_ratio # PyNone /\ ratio_at_least(moe_ratio.num, moe_ratio.den, 10),
         format |-> format_hint]

B15003_HIGH_SCHOOL_PLUS ==
    <<"B15003012", "B15003013", "B15003014", "B15003015", "B15003016", "B15003017",
      "B15003018", "B15003019", "B15003020">>
B15003_BACHELORS_PLUS ==
    <<"B15003015", "B15003016", "B15003017", "B15003018", "B15003019", "B15003020">>

\* The section builders, as the entry `metrics[metric_id]` of the dict each
\* returns (PyNone when it has no such entry).
build_demographics_section(payload, geoid, metric_id) ==
    CASE metric_id = "median_age" ->
            metric_block(payload, geoid, "median_age", "B01002", "B01002001", "number",
                         PyNone, FALSE)
      [] metric_id = "male_share" ->
            metric_block(payload, geoid, "male_share", "B01001", "B01001002", "percent",
                         pct(get_estimate(payload, geoid, "B01001", "B01001002"),
                             get_estimate(payload, geoid, "B01001", "B01001001")), FALSE)
      [] metric_id = "female_share" ->
            metric_block(payload, geoid, "female_share", "B01001", "B01001026", "percent",
                         pct(get_estimate(payload, geoid, "B01001", "B01001026"),
                             get_estimate(payload, geoid, "B01001", "B01001001")), FALSE)
      [] OTHER -> PyNone

build_economics_section(payload, geoid, metric_id) ==
    CASE metric_id = "per_capita_income" ->
            metric_block(payload, geoid, "per_capita_income", "B19301", "B19301001",
                         "currency", PyNone, TRUE)
      [] metric_id = "median_household_income" ->
            metric_block(payload, geoid, "median_household_income", "B19013", "B19013001",
                         "currency", PyNone, TRUE)
      [] metric_id = "poverty_rate" ->
            metric_block(payload, geoid, "poverty_rate", "B17001", "B17001002", "percent",
                         pct(get_estimate(payload, geoid, "B17001", "B17001002"),
                             get_estimate(payload, geoid, "B17001", "B17001001")), FALSE)
      [] metric_id = "mean_travel_time" ->
            metric_block(payload, geoid, "mean_travel_time", "B08303", "B08303001",
                         "minutes", PyNone, FALSE)
      [] OTHER -> PyNone

build_families_section(payload, geoid, metric_id) ==
    CASE metric_id = "households" ->
            metric_block(payload, geoid, "households", "B11001", "B11001001", "number",
                         PyNone, FALSE)
      [] metric_id = "persons_per_household" ->
            metric_block(payload, geoid, "persons_per_household", "B25010", "B25010001",
                         "number", PyNone, FALSE)
      [] metric_id = "married_share" ->
            metric_block(payload, geoid, "married_share", "B12001", "B12001004", "percent",
                         pct(sum_estimates(payload, geoid, "B12001",
                                           <<"B12001004", "B12001010">>),
                             get_estimate(payload, geoid, "B12001", "B12001001")), FALSE)
      [] metric_id = "fertility_rate" ->
            metric_block(payload, geoid, "fertility_rate", "B13016", "B13016002", "percent",
                         pct(get_estimate(payload, geoid, "B13016", "B13016002"),
                             get_estimate(payload, geoid, "B13016", "B13016001")), FALSE)
      [] OTHER -> PyNone

build_housing_section(payload, geoid, metric_id) ==
    CASE metric_id = "housing_units" ->
            metric_block(payload, geoid, "housing_units", "B25001", "B25001001", "number",
                         PyNone, FALSE)
      [] metric_id = "median_home_value" ->
            metric_block(payload, geoid, "median_home_value", "B25077", "B25077001",
                         "currency", PyNone, TRUE)
      [] metric_id = "median_rent" ->
            metric_block(payload, geoid, "median_rent", "B25064", "B25064001", "currency",
                         PyNone, TRUE)
      [] OTHER -> PyNone

\* language_total - english_only when both are numbers
other_language(language_total, english_only) ==
    IF IsNumber(language_total) /\ IsNumber(english_only)
    THEN Num(language_total.v - english_only.v) ELSE PyNone

build_social_section(payload, geoid, metric_id) ==
    CASE metric_id = "hs_or_higher_pct" ->
            metric_block(payload, geoid, "hs_or_higher_pct", "B15003", "B15003001",
                         "percent",
                         pct(sum_estimates(payload, geoid, "B15003", B15003_HIGH_SCHOOL_PLUS),
                             get_estimate(payload, geoid, "B15003", "B15003001")), FALSE)
      [] metric_id = "bachelors_or_higher_pct" ->
            metric_block(payload, geoid, "bachelors_or_higher_pct", "B15003", "B15003001",
                         "percent",
                         pct(sum_estimates(payload, geoid, "B15003", B15003_BACHELORS_PLUS),
                             get_estimate(payload, geoid, "B15003", "B15003001")), FALSE)
      [] metric_id = "foreign_born_pct" ->
            metric_block(payload, geoid, "foreign_born_pct", "B05002", "B05002013",
                         "percent",
                         pct(get_estimate(payload, geoid, "B05002", "B05002013"),
                             get_estimate(payload, geoid, "B05002", "B05002001")), FALSE)
      [] metric_id = "veteran_pct" ->
            metric_block(payload, geoid, "veteran_pct", "B21001", "B21001002", "percent",
                         pct(get_estimate(payload, geoid, "B21001", "B21001002"),
                             get_estimate(payload, geoid, "B21001", "B21001001")), FALSE)
      [] metric_id = "language_other_than_english_pct" ->
            metric_block(payload, geoid, "language_other_than_english_pct", "B16001",
                         "B16001001", "percent",
                         pct(other_language(get_estimate(payload, geoid, "B16001", "B16001001"),
                                            get_estimate(payload, geoid, "B16001", "B16001002")),
                             get_estimate(payload, geoid, "B16001", "B16001001")), FALSE)
      [] metric_id = "moved_last_year_pct" ->
            metric_block(payload, geoid, "moved_last_year_pct", "B07003", "B07003001",
                         "percent",
                         pct(sum_estimates(payload, geoid, "B07003",
                                 <<"B07003004", "B07003005", "B07003006", "B07003007">>),
                             get_estimate(payload, geoid, "B07003", "B07003001")), FALSE)
      [] OTHER -> PyNone

\* the "metrics" list of each section
SECTION_METRICS ==
    [demographics |-> <<"median_age">>,
     economics |-> <<"per_capita_income", "median_household_income", "poverty_rate",
                     "mean_travel_time">>,
     families |-> <<"households", "persons_per_household", "married_share",
                    "fertility_rate">>,
     housing |-> <<"housing_units", "median_home_value", "median_rent">>,
     social |-> <<"hs_or_higher_pct", "bachelors_or_higher_pct", "foreign_born_pct",
                  "veteran_pct", "language_other_than_english_pct",
                  "moved_last_year_pct">>]

\* the fields of the highlights that come from one column or one percentage
compute_highlights_for_geoid(payload, geoid) ==
    LET poverty_total == get_estimate(payload, geoid, "B17001", "B17001001")
        poverty_below == get_estimate(payload, geoid, "B17001", "B17001002")
        education_total == get_estimate(payload, geoid, "B15003", "B15003001")
        high_school_plus_count == sum_estimates(payload, geoid, "B15003",
                                                B15003_HIGH_SCHOOL_PLUS)
        bachelors_plus_count == sum_estimates(payload, geoid, "B15003", B15003_BACHELORS_PLUS)
    IN  [geoid |-> geoid,
         population |-> get_estimate(payload, geoid, "B01003", "B01003001"),
         median_age |-> get_estimate(payload, geoid, "B01002", "B01002001"),
         median_household_income |->
            normalize_median(get_estimate(payload, geoid, "B19013", "B19013001")),
         per_capita_income |->
            normalize_median(get_estimate(payload, geoid, "B19301", "B19301001")),
         poverty_rate_pct |-> pct(poverty_below, poverty_total),
         median_rent |-> normalize_median(get_estimate(payload, geoid, "B25064", "B25064001")),
         median_home_value |->
            normalize_median(get_estimate(payload, geoid, "B25077", "B25077001")),
         high_school_or_higher_pct |-> pct(high_school_plus_count, education_total),
         bachelors_or_higher_pct |-> pct(bachelors_plus_count, education_total)]

\* _metric_extractors: the value of a metric for a comparison geography
metric_extractors(payload, geoid) ==
    [metric_id \in {"median_age", "per_capita_income", "median_household_income",
                    "poverty_rate", "mean_travel_time", "households",
                    "persons_per_household", "median_home_value", "hs_or_higher_pct",
                    "bachelors_or_higher_pct", "foreign_born_pct", "veteran_pct",
                    "moved_last_year_pct"} |->
        CASE metric_id = "median_age" -> get_estimate(payload, geoid, "B01002", "B01002001")
          [] metric_id = "per_capita_income" ->
                normalize_median(get_estimate(payload, geoid, "B19301", "B19301001"))
          [] metric_id = "median_household_income" ->
                normalize_median(get_estimate(payload, geoid, "B19013", "B19013001"))
          [] metric_id = "poverty_rate" ->
                pct(get_estimate(payload, geoid, "B17001", "B17001002"),
                    get_estimate(payload, geoid, "B17001", "B17001001"))
          [] metric_id = "mean_travel_time" ->
                get_estimate(payload, geoid, "B08303", "B08303001")
          [] metric_id = "households" -> get_estimate(payload, geoid, "B11001", "B11001001")
          [] metric_id = "persons_per_household" ->
                get_estimate(payload, geoid, "B25010", "B25010001")
          [] metric_id = "median_home_value" ->
                normalize_median(get_estimate(payload, geoid, "B25077", "B25077001"))
          [] metric_id = "hs_or_higher_pct" ->
                pct(sum_estimates(payload, geoid, "B15003", B15003_HIGH_SCHOOL_PLUS),
                    get_estimate(payload, geoid, "B15003", "B15003001"))
          [] metric_id = "bachelors_or_higher_pct" ->
                pct(sum_estimates(payload, geoid, "B15003", B15003_BACHELORS_PLUS),
                    get_estimate(payload, geoid, "B15003", "B15003001"))
          [] metric_id = "foreign_born_pct" ->
                pct(get_estimate(payload, geoid, "B05002", "B05002013"),
                    get_estimate(payload, geoid, "B05002", "B05002001"))
          [] metric_id = "veteran_pct" ->
                pct(get_estimate(payload, geoid, "B21001", "B21001002"),
                    get_estimate(payload, geoid, "B21001", "B21001001"))
          [] OTHER ->
                pct(sum_estimates(payload, geoid, "B07003",
                        <<"B07003004", "B07003005", "B07003006", "B07003007">>),
                    get_estimate(payload, geoid, "B07003", "B07003001"))]

\* metric_map[metric_id] of build_derived: the population metric, then the
\* dicts of the five sections (PyNone for an id none of them has)
metric_map(payload, geoid, metric_id) ==
    IF metric_id = "population"
    THEN metric_block(payload, geoid, "population", "B01003", "B01003001", "number",
                      PyNone, FALSE)
    ELSE IF build_demographics_section(payload, geoid, metric_id) # PyNone
    THEN build_demographics_section(payload, geoid, metric_id)
    ELSE IF build_economics_section(payload, geoid, metric_id) # PyNone
    THEN build_economics_section(payload, geoid, metric_id)
    ELSE IF build_families_section(payload, geoid, metric_id) # PyNone
    THEN build_families_section(payload, geoid, metric_id)
    ELSE IF build_housing_section(payload, geoid, metric_id) # PyNone
    THEN build_housing_section(payload, geoid, metric_id)
    ELSE build_social_section(payload, geoid, metric_id)

\* build_derived, for one metric of metric_map: the highlights, the metric
\* with the comparisons lines 1529-1554 give it, and the section that lists it
build_derived(tract_full_payload, comparisons_payload, comparison_geoids, tract_geoid, selected_parents, metric_id) ==
    LET names(source) ==
            LET g == GetD(source, "geography") IN [geoid \in DOMAIN g |-> GetS(g[geoid], "name")]
        metric == metric_map(tract_full_payload, tract_geoid, metric_id)
        lines ==
            IF metric_id \notin DOMAIN metric_extractors(comparisons_payload, tract_geoid)
            THEN <<>>
            ELSE comparison_lines_for_metric(
                    [tract_value |-> metric.estimate,
                     comparison_values |->
                        [geoid \in Range(comparison_geoids) |->
                            metric_extractors(comparisons_payload, geoid)[metric_id]],
                     selected_parents |-> selected_parents,
                     geography_lookup |-> Update(names(tract_full_payload),
                                                 names(comparisons_payload)),
                     allowed_relations |-> METRIC_RELATIONS_DEFAULT]).lines
    IN  [tract_highlights |-> compute_highlights_for_geoid(tract_full_payload, tract_geoid),
         comparison_highlights |->
            [geoid \in Range(comparison_geoids) |->
                compute_highlights_for_geoid(comparisons_payload, geoid)],
         section |-> IF \E sec \in DOMAIN SECTION_METRICS :
                           metric_id \in Range(SECTION_METRICS[sec])
                     THEN CHOOSE sec \in DOMAIN SECTION_METRICS :
                             metric_id \in Range(SECTION_METRICS[sec])
                     ELSE "",
         metric |-> metric,
         comparisons |-> lines]

\* The payloads build_derived is given in the model: one table with values
\* for the tract and for the county, the state without data.
DerivedCases ==
    {[metric |-> "median_rent", table |-> "B25064", column |-> "B25064001", whole |-> ""],
     [metric |-> "median_household_income", table |-> "B19013", column |-> "B19013001",
      whole |-> ""],
     [metric |-> "median_home_value", table |-> "B25077", column |-> "B25077001",
      whole |-> ""],
     [metric |-> "per_capita_income", table |-> "B19301", column |-> "B19301001",
      whole |-> ""],
     [metric |-> "housing_units", table |-> "B25001", column |-> "B25001001", whole |-> ""],
     [metric |-> "households", table |-> "B11001", column |-> "B11001001", whole |-> ""],
     [metric |-> "population", table |-> "B01003", column |-> "B01003001", whole |-> ""],
     [metric |-> "poverty_rate", table |-> "B17001", column |-> "B17001002",
      whole |-> "B17001001"],
     [metric |-> "male_share", table |-> "B01001", column |-> "B01001002",
      whole |-> "B01001001"],
     [metric |-> "hs_or_higher_pct", table |-> "B15003", column |-> "B15003017",
      whole |-> "B15003001"],
     [metric |-> "language_other_than_english_pct", table |-> "B16001",
      column |-> "B16001002", whole |-> "B16001001"],
     [metric |-> "married_share", table |-> "B12001", column |-> "B12001004",
      whole |-> "B12001001"]}

TableValues(c, part, whole, moe) ==
    c.table :> (("estimate" :> (IF c.whole = "" THEN c.column :> part
                                ELSE (c.column :> part) @@ (c.whole :> whole)))
                @@ ("error" :> (IF c.whole = "" THEN c.column :> moe
                                ELSE (c.column :> moe) @@ (c.whole :> moe))))

DerivedPayload(data) ==
    ("release" :> PyNone)
    @@ ("geography" :> [geoid \in DOMAIN data |->
                           "name" :> (IF geoid = COUNTY_GEOID THEN "Dane County, WI" ELSE "")])
    @@ ("data" :> data)

InitDerived ==
    /\ InitIdle("build_derived")
    /\ \E c \in DerivedCases,
          part \in {PyNone, Num(0), Num(12), Num(100), Num(-6666)},
          moe \in {PyNone, Num(9), Num(10), Num(11)},
          county_part \in {PyNone, Num(0), Num(50), Num(-6666)} :
       \E whole \in (IF c.whole = "" THEN {PyNone} ELSE {PyNone, Num(0), Num(50), Num(200)}),
          county_whole \in (IF c.whole = "" THEN {PyNone} ELSE {Num(0), Num(200)}) :
          LET tract == TableValues(c, part, whole, moe)
              county == TableValues(c, county_part, county_whole, Num(3))
          IN  args = [metric_id |-> c.metric,
                      tract_full_payload |-> DerivedPayload(TRACT_GEOID :> tract),
                      comparisons_payload |->
                          DerivedPayload((TRACT_GEOID :> tract) @@ (COUNTY_GEOID :> county)
                                         @@ (STATE_GEOID :> <<>>)),
                      comparison_geoids |-> <<TRACT_GEOID, COUNTY_GEOID, STATE_GEOID>>,
                      tract_geoid |-> TRACT_GEOID,
                      selected_parents |->
                          <<Parent("050", COUNTY_GEOID, "county", "Dane County, WI"),
                            Parent("040", STATE_GEOID, "state", "Wisconsin")>>]

BuildDerived ==
    /\ entry = "build_derived"
    /\ Returns(build_derived(args.tract_full_payload, args.comparisons_payload,
                             args.comparison_geoids, args.tract_geoid,
                             args.selected_parents, args.metric_id))

SpecDerived == InitDerived /\ [][BuildDerived]_vars

(***************************************************************************)
(* Properties.                                                             *)
(***************************************************************************)
\* `marker in text.lower()`, stated on the words
ContainsMarkerIgnoringCase(text) == Contains(Lower(text), MARKER)

TableRequests == {k \in 1..Len(requests) : requests[k].kind = "table"}

\* C1: per-table requests are issued only after the bulk request raised an
\* UpstreamAPIError whose message contains the marker, compared without case;
\* any other bulk UpstreamAPIError is re-raised as it is and no per-table
\* request is issued.
C1_FallbackOnlyOnMarker ==
    LET bulk == requests[1] IN
    /\ TableRequests # {} =>
          /\ bulk.outcome = "raise"
          /\ bulk.exc.type = "UpstreamAPIError"
          /\ ContainsMarkerIgnoringCase(bulk.exc.message)
    /\ (bulk.outcome = "raise" /\ ~ContainsMarkerIgnoringCase(bulk.exc.message)
            /\ pc # "bulk") =>
          /\ pc = "done"
          /\ fresult = FetchRaise(bulk.exc)
          /\ TableRequests = {}

\* the fallback was entered on a message that matches only once lower-cased
C1_Witness ==
    /\ TableRequests # {}
    /\ ~Contains(requests[1].exc.message, MARKER)
    /\ ContainsMarkerIgnoringCase(requests[1].exc.message)

\* C2: in degraded mode request k+1 is the request for table_ids[k] alone, with
\* all geoids and stage "<stage>:<table_id>"; when the fetch is over there is
\* one such request per entry of table_ids, whatever requests failed.
C2_OneRequestPerTableInOrder ==
    degraded =>
       /\ Len(requests) <= 1 + Len(table_ids)
       /\ \A k \in 2..Len(requests) :
             /\ requests[k].kind = "table"
             /\ requests[k].table_ids = <<table_ids[k - 1]>>
             /\ requests[k].geoids = geoids
             /\ requests[k].stage = fstage \o ":" \o table_ids[k - 1]
       /\ pc = "done" => Len(requests) = 1 + Len(table_ids)

\* three tables, the first one failed, the last one was still requested and succeeded
C2_Witness ==
    /\ degraded /\ pc = "done" /\ Len(table_ids) = 3 /\ Len(geoids) = 2
    /\ requests[2].outcome = "raise"
    /\ requests[4].outcome = "return"

IsFailed(r) == r.outcome = "raise"
IsSucceeded(r) == r.outcome = "return"
FailedRequests == SelectSeq(SubSeq(requests, 2, Len(requests)), IsFailed)
SucceededRequests == SelectSeq(SubSeq(requests, 2, Len(requests)), IsSucceeded)

\* the union of the responses for the tables of `reqs`
UnionOfResponses(reqs) ==
    LET tabs == {reqs[k].table_ids[1] : k \in 1..Len(reqs)} IN
    [k \in {"release", "tables", "geography", "data"} |->
        CASE k = "release" -> Str("acs2023_5yr")
          [] k = "tables" -> Dict([tid \in tabs |-> Str("title")])
          [] k = "geography" -> Dict([g \in Range(geoids) |-> Str("name")])
          [] OTHER -> Dict([g \in Range(geoids) |-> Dict([tid \in tabs |-> Str("estimate")])])]

\* C3: degraded mode with s >= 1 successes out of m returns the payload merged
\* from the s successful responses and an error list that is empty when
\* nothing failed and otherwise is the summary "s/m tables succeeded" followed
\* by one {stage, table_id, message} entry per failed table, in request order.
C3_PartialSuccessResult ==
    (degraded /\ pc = "done" /\ Len(SucceededRequests) >= 1) =>
       LET s == Len(SucceededRequests)
           f == Len(FailedRequests)
           m == Len(table_ids)
       IN  /\ fresult.kind = "return"
           /\ fresult.payload = UnionOfResponses(SucceededRequests)
           /\ f = 0 => fresult.errors = <<>>
           /\ f > 0 =>
                 /\ Len(fresult.errors) = f + 1
                 /\ DOMAIN fresult.errors[1] = {"stage", "message"}
                 /\ fresult.errors[1].stage = fstage
                 /\ \E k \in 1..Len(fresult.errors[1].message) :
                       /\ fresult.errors[1].message[k].core = NumText(s) \o "/" \o NumText(m)
                       /\ k + 2 <= Len(fresult.errors[1].message)
                       /\ fresult.errors[1].message[k + 1].core = "tables"
                       /\ fresult.errors[1].message[k + 2].core = "succeeded"
                 /\ \A j \in 1..f :
                       fresult.errors[j + 1] =
                          [stage |-> fstage,
                           table_id |-> FailedRequests[j].table_ids[1],
                           message |-> ExcStr(FailedRequests[j].exc)]

\* three tables, one failure: a list of length 2
C3_Witness ==
    /\ degraded /\ pc = "done" /\ Len(table_ids) = 3
    /\ Len(SucceededRequests) = 2 /\ Len(FailedRequests) = 1
    /\ Len(fresult.errors) = 2

\* text `inner` ends text `outer`
EndsWithText(outer, inner) ==
    /\ Len(inner) <= Len(outer)
    /\ SubSeq(outer, Len(outer) - Len(inner) + 1, Len(outer)) = inner

\* C4: when every per-table request failed the fetch returns nothing and raises
\* an UpstreamAPIError with the fetch's own stage whose message embeds the
\* message of the first failed table.
C4_AllFallbacksFail ==
    (degraded /\ pc = "done" /\ SucceededRequests = <<>> /\ table_ids # <<>>) =>
       /\ fresult.kind = "raise"
       /\ fresult.payload = <<>>
       /\ fresult.exc.type = "UpstreamAPIError"
       /\ fresult.exc.stage = fstage
       /\ EndsWithText(fresult.exc.message, ExcStr(requests[2].exc))

\* at least two tables failed, with different messages
C4_Witness ==
    /\ degraded /\ pc = "done" /\ SucceededRequests = <<>> /\ Len(table_ids) >= 2
    /\ requests[2].exc.message # requests[3].exc.message
    /\ fresult.kind = "raise"

\* a failed attempt that request_json's policy retries
RetryableOutcome(o) ==
    \/ o.kind = "exc"
    \/ o.kind = "resp" /\ o.status \in {429, 500, 502, 503, 504}

\* C5: request_json makes at most retries+1 GETs; a GET follows another one
\* only when that one failed with a transport exception or a status of
\* {429,500,502,503,504} and fewer than retries+1 were made; when the last
\* attempt failed that way too, UpstreamAPIError is raised after exactly
\* retries+1 GETs.
C5_RetryPolicy ==
    /\ [](gets <= retries + 1)
    /\ []((result.kind = "raise" /\ RetryableOutcome(lastOutcome)) =>
            (gets = retries + 1 /\ result.exc.type = "UpstreamAPIError"))
    /\ []((result = NoResult /\ gets >= 1) => RetryableOutcome(lastOutcome))
    /\ [][(gets' = gets + 1 /\ gets >= 1) =>
            (RetryableOutcome(lastOutcome) /\ gets < retries + 1)]_vars

\* every attempt of a call with at least two retries failed in a retryable way
C5_Witness ==
    /\ entry = "request_json" /\ retries >= 2
    /\ result.kind = "raise" /\ RetryableOutcome(lastOutcome)
    /\ gets = retries + 1

ClientErrorNot429(o) ==
    o.kind = "resp" /\ o.status >= 400 /\ o.status < 500 /\ o.status # 429

\* C6: a 4xx response other than 429 ends request_json at once with an
\* UpstreamAPIError: no sleep follows it and no further GET is made.
C6_ClientErrorFailsAtOnce ==
    ClientErrorNot429(lastOutcome) =>
       /\ result.kind = "raise"
       /\ result.exc.type = "UpstreamAPIError"
       /\ result.exc.stage = call.stage
       /\ ~lastSlept
       /\ Len(sleeps) = gets - 1
       /\ ~ENABLED Attempt

\* the 4xx came on the first attempt of a call that had retries left
C6_Witness ==
    /\ entry = "request_json" /\ ClientErrorNot429(lastOutcome)
    /\ gets = 1 /\ retries >= 2

\* the per-table requests of fetch `st`
TableRequestsOf(st) == {k \in TableRequests : requests[k].fetch = st}

\* the payload fetch `st` gave the lookup holds at least one table
NonEmptyPayload(payload) ==
    /\ "tables" \in DOMAIN payload /\ IsDict(payload["tables"])
    /\ DOMAIN payload["tables"].v # {}
    /\ "data" \in DOMAIN payload /\ IsDict(payload["data"])
    /\ DOMAIN payload["data"].v # {}

FallbackPayloadsNonEmpty ==
    /\ TableRequestsOf("tract_full") # {} => NonEmptyPayload(response.data.tract_full)
    /\ TableRequestsOf("comparisons") # {} => NonEmptyPayload(response.data.comparisons)

GeocoderIdsRejected(payload) ==
    /\ payload.tracts # <<>>
    /\ \/ GetS(payload.tracts[1], "GEOID") # "55025001704"
       \/ payload.counties # <<>> /\ GetS(payload.counties[1], "GEOID") \notin {"", "55025"}
       \/ \E k \in 1..Len(payload.zcta_layers) :
             /\ payload.zcta_layers[k] # <<>>
             /\ GetS(payload.zcta_layers[k][1], "ZCTA5") # "53703"

C8_NoTractIs404 ==
    (pc # "geocoder" /\ requests[1].outcome = "return"
        /\ requests[1].value.v.tracts = <<>>) =>
       /\ pc = "done"
       /\ Len(requests) = 1
       /\ requests[1].kind = "geocoder"
       /\ response.status = 404
       /\ response.exc_type = "NoTractFoundError"

\* the geocoder answered with counties but no tract
C8_Witness ==
    /\ pc = "done" /\ requests[1].outcome = "return"
    /\ requests[1].value.v.tracts = <<>>
    /\ requests[1].value.v.counties # <<>>

PartialFailure(st) ==
    /\ \E k \in TableRequestsOf(st) : requests[k].outcome = "raise"
    /\ \E k \in TableRequestsOf(st) : requests[k].outcome = "return"

\* C9: the errors of a successful response are the tract fetch's errors followed
\* by the comparisons fetch's; they are non-empty exactly when, in one of the
\* two fetches, a per-table request failed while another one succeeded; a
\* failed request carries no errors list.
C9_ErrorsOfASuccess ==
    pc = "done" =>
       /\ response.status = 200 =>
             /\ Len(fetched) = 2
             /\ fetched[1].stage = "tract_full" /\ fetched[2].stage = "comparisons"
             /\ response.errors = fetched[1].errors \o fetched[2].errors
             /\ response.errors # <<>>
                   <=> (PartialFailure("tract_full") \/ PartialFailure("comparisons"))
       /\ response.status # 200 => "errors" \notin DOMAIN response

\* both fetches were degraded and each lost a table
C9_Witness ==
    /\ pc = "done" /\ response.status = 200
    /\ PartialFailure("tract_full") /\ PartialFailure("comparisons")
    /\ Len(response.errors) = 4

\* C10: merging B into A a second time changes nothing:
\* merge(merge(A, B), B) = merge(A, B).
C10_MergeIdempotent ==
    merges = 2 => base = once

\* the first merge changed the accumulator, which already held data
C10_Witness ==
    /\ merges = 2 /\ once # base0 /\ once # incoming
    /\ "data" \in DOMAIN base0 /\ IsDict(base0["data"]) /\ DOMAIN base0["data"].v # {}

SameRelease(payloads) ==
    \A i, j \in 1..Len(payloads) :
        payloads[i]["release"] = payloads[j]["release"]
        \/ payloads[i]["release"] = PyNone \/ payloads[j]["release"] = PyNone

SameGeography(payloads) ==
    \A i, j \in 1..Len(payloads) :
        \A g \in DOMAIN payloads[i]["geography"].v \cap DOMAIN payloads[j]["geography"].v :
            payloads[i]["geography"].v[g] = payloads[j]["geography"].v[g]

At(d, k) == IF IsDict(d) /\ k \in DOMAIN d.v THEN d.v[k] ELSE PyNone

\* every dict value of `old` met again in `new` kept its keys
KeepsKeysOf(old, new) ==
    IsDict(old) =>
       \A k \in DOMAIN old.v :
           IsDict(old.v[k]) => (IsDict(At(new, k)) /\ DOMAIN old.v[k].v \subseteq DOMAIN At(new, k).v)

ReleaseSetOnce ==
    Get(once, "release") =
        IF Get(base0, "release") = PyNone THEN Get(incoming, "release")
        ELSE Get(base0, "release")

\* C12 as stated: release is set only when the accumulator's is null, and no
\* dict value already in the accumulator's tables, geography or data is
\* replaced wholesale: an entry present on both sides keeps the keys of both.
C12_DeepMerge ==
    merges >= 1 =>
       /\ ReleaseSetOnce
       /\ \A k \in {"tables", "geography", "data"} :
             KeepsKeysOf(Get(base0, k), Get(once, k))
       /\ IsDict(Get(base0, "data")) =>
             \A g \in DOMAIN base0["data"].v :
                 KeepsKeysOf(base0["data"].v[g], At(Get(once, "data"), g))

\* a section after the merge: the incoming value for the keys incoming has,
\* the accumulator's value for the others
KeyWiseUpdate(old, inc, new) ==
    (IsDict(old) /\ IsDict(inc)) =>
       /\ IsDict(new)
       /\ DOMAIN new.v = DOMAIN old.v \cup DOMAIN inc.v
       /\ \A k \in DOMAIN new.v : new.v[k] = IF k \in DOMAIN inc.v THEN inc.v[k] ELSE old.v[k]

\* C12, amended: release is set only when the accumulator's is null; tables
\* and geography are merged key by key and data per geoid and table: what only
\* one side has is kept, and for a key (a geoid and table) present on both
\* sides the incoming value replaces the accumulator's value wholesale.
C12_KeyWiseMerge ==
    merges >= 1 =>
       /\ ReleaseSetOnce
       /\ \A k \in {"tables", "geography"} :
             KeyWiseUpdate(Get(base0, k), Get(incoming, k), Get(once, k))
       /\ (IsDict(Get(base0, "data")) /\ IsDict(Get(incoming, "data"))) =>
             /\ IsDict(Get(once, "data"))
             /\ DOMAIN once["data"].v = DOMAIN base0["data"].v \cup DOMAIN incoming["data"].v
             /\ \A g \in DOMAIN base0["data"].v :
                   /\ g \notin DOMAIN incoming["data"].v =>
                         once["data"].v[g] = base0["data"].v[g]
                   /\ g \in DOMAIN incoming["data"].v =>
                         KeyWiseUpdate(base0["data"].v[g], incoming["data"].v[g],
                                       once["data"].v[g])

\* a geoid and table present on both sides with different columns: the merged
\* entry is the incoming one
C12_Witness ==
    /\ merges >= 1
    /\ IsDict(Get(base0, "data")) /\ IsDict(Get(incoming, "data"))
    /\ \E g \in DOMAIN base0["data"].v \cap DOMAIN incoming["data"].v :
          /\ IsDict(base0["data"].v[g]) /\ IsDict(incoming["data"].v[g])
          /\ \E t \in DOMAIN base0["data"].v[g].v \cap DOMAIN incoming["data"].v[g].v :
                /\ IsDict(base0["data"].v[g].v[t]) /\ IsDict(incoming["data"].v[g].v[t])
                /\ DOMAIN base0["data"].v[g].v[t].v # DOMAIN incoming["data"].v[g].v[t].v
                /\ once["data"].v[g].v[t] = incoming["data"].v[g].v[t]
    /\ Get(base0, "release") # PyNone /\ Get(incoming, "release") # PyNone
    /\ Get(base0, "release") # Get(incoming, "release")

\* ---- build_comparison_geoids, in the words of the claims
ClaimedOrder == <<"140", "860", "050", "160", "310", "040", "010">>

LevelRank(level) == CHOOSE i \in 1..Len(ClaimedOrder) : ClaimedOrder[i] = level

\* a numeric level code padded to 3 digits
Padded(level) ==
    CASE level = "40" -> "040"
      [] level = "50" -> "050"
      [] level = "10" -> "010"
      [] OTHER -> level

CandidateGeoid(parent) ==
    IF GetS(parent, "geoid") # "" THEN GetS(parent, "geoid") ELSE GetS(parent, "full_geoid")

\* positions of the ancestor candidates of a level, all of them or those carrying a geoid
CandidatesOf(level) ==
    {k \in 1..Len(args.parents) : Padded(GetS(args.parents[k], "sumlevel")) = level}

CandidatesWithGeoidOf(level) ==
    {k \in CandidatesOf(level) : CandidateGeoid(args.parents[k]) # ""}

First(positions) == CHOOSE k \in positions : \A other \in positions : k <= other

OverrideGeoid(level) ==
    IF level = "140" THEN args.tract_geoid
    ELSE IF \E k \in 1..Len(args.required) : args.required[k][1] = level
    THEN LET k == CHOOSE k \in 1..Len(args.required) : args.required[k][1] = level
         IN  args.required[k][2]
    ELSE ""

ResolvedGeoid(level) ==
    IF OverrideGeoid(level) # "" THEN OverrideGeoid(level)
    ELSE IF CandidatesWithGeoidOf(level) = {} THEN ""
    ELSE CandidateGeoid(args.parents[First(CandidatesWithGeoidOf(level))])

ReturnedWithParents ==
    pc = "return" /\ entry = "build_comparison_geoids" /\ args.include_parents

RecordLevels == [i \in 1..Len(ret.records) |-> ret.records[i]["sumlevel"]]

\* C13: with include_parents the resolved geoids come out in the level order
\* 140, 860, 050, 160, 310, 040, 010, levels without a resolved geoid skipped
\* and no geoid twice; ancestors at 140, 160, 050, 040, 010 with overrides for
\* 860 and 050 give exactly 140, 860, 050, 160, 040, 010.
C13_LevelOrder ==
    ReturnedWithParents =>
       /\ Len(ret.geoids) = Len(ret.records)
       /\ \A i \in 1..Len(ret.records) :
             /\ RecordLevels[i] \in Range(ClaimedOrder)
             /\ ret.geoids[i] = ResolvedGeoid(RecordLevels[i])
             /\ ret.records[i]["geoid"] = ret.geoids[i]
       /\ \A i, j \in 1..Len(ret.records) :
             i < j => /\ LevelRank(RecordLevels[i]) < LevelRank(RecordLevels[j])
                      /\ ret.geoids[i] # ret.geoids[j]
       /\ Range(ret.geoids) = {ResolvedGeoid(level) : level \in Range(ClaimedOrder)} \ {""}
       /\ (args.parents = AncestorsExample /\ Len(args.required) = 2) =>
             /\ RecordLevels = <<"140", "860", "050", "160", "040", "010">>
             /\ ret.geoids = <<TRACT_GEOID, ZCTA_GEOID, COUNTY_GEOID, PLACE_GEOID,
                               STATE_GEOID, NATION_GEOID>>

\* the example of the claim was computed
C13_Witness ==
    /\ ReturnedWithParents
    /\ args.parents = AncestorsExample /\ Len(args.required) = 2
    /\ Len(ret.geoids) = 6

\* C14: the geoid list holds the tract geoid exactly once, at index 0, and the
\* record list starts with the tract's record.
C14_TractFirst ==
    (pc = "return" /\ entry = "build_comparison_geoids") =>
       /\ Len(ret.geoids) >= 1 /\ Len(ret.records) >= 1
       /\ ret.geoids[1] = args.tract_geoid
       /\ Cardinality({i \in 1..Len(ret.geoids) : ret.geoids[i] = args.tract_geoid}) = 1
       /\ ret.records[1]["sumlevel"] = "140"
       /\ ret.records[1]["geoid"] = args.tract_geoid

\* the ancestors start with a place, then another tract at level 140, then the tract
C14_Witness ==
    /\ ReturnedWithParents
    /\ Len(args.parents) = 3
    /\ GetS(args.parents[1], "sumlevel") = "160"
    /\ GetS(args.parents[2], "geoid") = "14000US55025001600"
    /\ GetS(args.parents[3], "geoid") = args.tract_geoid
    /\ Len(ret.geoids) = 2

SameRecord(record, parent) ==
    /\ record["geoid"] = CandidateGeoid(parent)
    /\ GetS(record, "display_name") = GetS(parent, "display_name")
    /\ GetS(record, "relation") = GetS(parent, "relation")

UniqueLevels ==
    \A i, j \in 1..Len(ret.records) : RecordLevels[i] = RecordLevels[j] => i = j

\* C15 as stated: no two records share a sumlevel, and the record of a level
\* without override is the first ancestor candidate met with that level, its
\* code padded to 3 digits.
C15_FirstCandidatePerLevel ==
    ReturnedWithParents =>
       /\ UniqueLevels
       /\ \A i \in 1..Len(ret.records) :
             OverrideGeoid(RecordLevels[i]) = "" =>
                /\ CandidatesOf(RecordLevels[i]) # {}
                /\ SameRecord(ret.records[i], args.parents[First(CandidatesOf(RecordLevels[i]))])

\* C15, amended: the record of a level without override is the first ancestor
\* candidate of that level that carries a geoid (geoid or full_geoid); the
\* candidates without one are passed over, the later ones ignored.
C15_FirstCandidateWithGeoid ==
    ReturnedWithParents =>
       /\ UniqueLevels
       /\ \A i \in 1..Len(ret.records) :
             OverrideGeoid(RecordLevels[i]) = "" =>
                /\ CandidatesWithGeoidOf(RecordLevels[i]) # {}
                /\ SameRecord(ret.records[i],
                              args.parents[First(CandidatesWithGeoidOf(RecordLevels[i]))])

\* two states, the first under the unpadded code 40, and the first one is kept
C15_Witness ==
    /\ ReturnedWithParents
    /\ Len(args.parents) >= 2
    /\ GetS(args.parents[1], "sumlevel") = "40"
    /\ GetS(args.parents[2], "sumlevel") = "040"
    /\ \E i \in 1..Len(ret.records) :
          RecordLevels[i] = "040" /\ ret.geoids[i] = "04000US17"

ClaimedDefaultRelation(level) ==
    CASE level = "140" -> "this"
      [] level = "860" -> "zcta"
      [] level = "050" -> "county"

\* C16: the record of a level with a required override carries the override's
\* geoid, and the ancestor's relation when the ancestor record has one,
\* otherwise 'this' for 140, 'zcta' for 860, 'county' for 050.
C16_Overrides ==
    ReturnedWithParents =>
       \A level \in {"140", "860", "050"} :
           OverrideGeoid(level) # "" =>
              /\ \E i \in 1..Len(ret.records) : RecordLevels[i] = level
              /\ \A i \in 1..Len(ret.records) :
                    RecordLevels[i] = level =>
                       /\ ret.geoids[i] = OverrideGeoid(level)
                       /\ ret.records[i]["geoid"] = OverrideGeoid(level)
                       /\ ret.records[i]["relation"] =
                             IF /\ CandidatesWithGeoidOf(level) # {}
                                /\ "relation" \in DOMAIN
                                       args.parents[First(CandidatesWithGeoidOf(level))]
                             THEN args.parents[First(CandidatesWithGeoidOf(level))]["relation"]
                             ELSE ClaimedDefaultRelation(level)

\* the ancestors give another county, without relation: the override's county
\* is emitted with the default relation, and the ZCTA has no ancestor at all
C16_Witness ==
    /\ ReturnedWithParents
    /\ Len(args.required) = 2
    /\ CandidatesWithGeoidOf("050") # {}
    /\ CandidateGeoid(args.parents[First(CandidatesWithGeoidOf("050"))]) = "05000US55021"
    /\ CandidatesOf("860") = {}
    /\ \E i \in 1..Len(ret.records) :
          /\ RecordLevels[i] = "050" /\ ret.geoids[i] = COUNTY_GEOID
          /\ ret.records[i]["relation"] = "county"

\* C17: with include_parents false no 'parents' request is issued and the
\* comparison geoids are the tract geoid alone, whatever county and ZCTA the
\* geocoder gave.
C17_NoParents ==
    (entry = "lookup" /\ ~include_parents) =>
       /\ \A i \in 1..Len(requests) :
             /\ requests[i].kind # "parents"
             /\ requests[i].stage # "parents"
             /\ requests[i].fetch = "comparisons" => requests[i].geoids = <<geo.tract_geoid>>
       /\ pc \in {"bulk", "table"} => geo.comparison_geoids = <<geo.tract_geoid>>
       /\ (pc = "done" /\ response.status = 200) =>
             response.comparison_geoids = <<geo.tract_geoid>>

\* a lookup without parents succeeded although the geocoder gave county and ZCTA
C17_Witness ==
    /\ entry = "lookup" /\ ~include_parents
    /\ pc = "done" /\ response.status = 200
    /\ geo.county_geoid = COUNTY_GEOID /\ geo.zcta_geoid = ZCTA_GEOID
    /\ response.comparison_geoids = <<TRACT_GEOID>>

\* ---- _ratio_phrase, in the words of the claim
ClaimedPhrases ==
    << <<200, "more than double">>, <<150, "about one-and-a-half times">>,
       <<120, "about 20 percent higher than">>, <<90, "about the same as">>,
       <<75, "about three-quarters of">>, <<60, "about two-thirds of">>,
       <<45, "about half">>, <<30, "about one-third of">>, <<15, "about one-fifth of">>,
       <<0, "less than 20 percent of">> >>

\* the phrase of the highest threshold (in hundredths) that num / den reaches
ClaimedPhrase(num, den) ==
    LET reached == {k \in 1..Len(ClaimedPhrases) : num * 100 >= ClaimedPhrases[k][1] * den}
    IN  ClaimedPhrases[First(reached)][2]

\* C18: every positive ratio gets exactly one of the ten phrases, that of the
\* highest threshold it reaches; 2.0, 1.99, 1.0, 0.1 and 30683/78050 get
\* 'more than double', 'about one-and-a-half times', 'about the same as',
\* 'less than 20 percent of' and 'about one-third of'.
C18_RatioPhrase ==
    (pc = "return" /\ entry = "_ratio_phrase") =>
       /\ ret = ClaimedPhrase(args.num, args.den)
       /\ Cardinality({k \in 1..Len(ClaimedPhrases) : ClaimedPhrases[k][2] = ret}) = 1
       /\ args = [num |-> 200, den |-> 100] => ret = "more than double"
       /\ args = [num |-> 199, den |-> 100] => ret = "about one-and-a-half times"
       /\ args = [num |-> 100, den |-> 100] => ret = "about the same as"
       /\ args = [num |-> 10, den |-> 100] => ret = "less than 20 percent of"
       /\ args = [num |-> 30683, den |-> 78050] => ret = "about one-third of"

\* the ratio 2.0, on the boundary of the highest threshold
C18_Witness ==
    /\ pc = "return" /\ entry = "_ratio_phrase"
    /\ args = [num |-> 200, den |-> 100] /\ ret = "more than double"

\* ---- _comparison_lines_for_metric, in the words of the claims
LinesReturned == pc = "return" /\ entry = "_comparison_lines_for_metric"

\* the ancestor's value of the metric, PyNone when there is none
ValueOf(geoid) ==
    IF geoid \in DOMAIN args.comparison_values THEN args.comparison_values[geoid] ELSE PyNone

\* C19: a comparison line exists only when the focal value and the ancestor's
\* value are non-null and the ancestor's value is not 0; a null focal value
\* gives no line, an ancestor with a null or zero value gives no line, nothing
\* is divided by zero, and every line's ratio is focal / ancestor.
C19_LinesNeedBothValues ==
    LinesReturned =>
       /\ ret.exc = "none"
       /\ args.tract_value = PyNone => ret.lines = <<>>
       /\ \A i \in 1..Len(ret.lines) :
             /\ args.tract_value # PyNone
             /\ ValueOf(ret.lines[i].geoid) # PyNone
             /\ ValueOf(ret.lines[i].geoid).v # 0
             /\ ret.lines[i].comparison_value = ValueOf(ret.lines[i].geoid)
             /\ ret.lines[i].ratio = [num |-> args.tract_value.v,
                                      den |-> ValueOf(ret.lines[i].geoid).v]
       /\ \A k \in 1..Len(args.selected_parents) :
             (ValueOf(GetS(args.selected_parents[k], "geoid")) \in {PyNone, Num(0)}) =>
                \A i \in 1..Len(ret.lines) :
                    ret.lines[i].geoid # GetS(args.selected_parents[k], "geoid")

\* a place with value 0 and a county without value are passed over, the state
\* gets its line
C19_Witness ==
    /\ LinesReturned
    /\ args.tract_value = Num(30683)
    /\ Len(args.selected_parents) = 3
    /\ ValueOf(GetS(args.selected_parents[1], "geoid")) = Num(0)
    /\ relation_of(args.selected_parents[1]) = "place"
    /\ ValueOf(GetS(args.selected_parents[2], "geoid")) = PyNone
    /\ relation_of(args.selected_parents[2]) = "county"
    /\ Len(ret.lines) = 1 /\ ret.lines[1].ratio = [num |-> 30683, den |-> 72458]

ClaimedAllowed == {"place", "county", "state", "nation"}

\* the relation an ancestor carries, in lower case and without blanks around it
CarriedRelation(parent) ==
    CASE GetS(parent, "relation") = "County" -> "county"
      [] GetS(parent, "relation") \in {"STATE", "state "} -> "state"
      [] GetS(parent, "relation") = " nation" -> "nation"
      [] OTHER -> GetS(parent, "relation")

CarriersOf(relation) ==
    {k \in 1..Len(args.selected_parents) :
        CarriedRelation(args.selected_parents[k]) = relation}

\* C20: the lines follow the resolution order of the ancestors, carry only
\* relations of the allow-list place, county, state, nation (never 'this' or
\* 'zcta'), no relation twice, and the ancestor of a line is the first one in
\* resolution order that carries the relation.
C20_LinesByRelation ==
    LinesReturned =>
       /\ \A i \in 1..Len(ret.lines) :
             /\ ret.lines[i].relation \in ClaimedAllowed
             /\ CarriersOf(ret.lines[i].relation) # {}
             /\ ret.lines[i].geoid =
                   GetS(args.selected_parents[First(CarriersOf(ret.lines[i].relation))], "geoid")
       /\ \A i, j \in 1..Len(ret.lines) :
             i < j => /\ ret.lines[i].relation # ret.lines[j].relation
                      /\ First(CarriersOf(ret.lines[i].relation))
                            < First(CarriersOf(ret.lines[j].relation))

\* the tract itself, then two states: one line, for the first state
C20_Witness ==
    /\ LinesReturned
    /\ args.tract_value = Num(30683)
    /\ Len(args.selected_parents) = 3
    /\ GetS(args.selected_parents[1], "relation") = "this"
    /\ ValueOf(TRACT_GEOID) = Num(78050)
    /\ GetS(args.selected_parents[2], "geoid") = "04000US17"
    /\ GetS(args.selected_parents[3], "geoid") = STATE_GEOID
    /\ Len(ret.lines) = 1 /\ ret.lines[1].geoid = "04000US17"
    /\ ret.lines[1].relation = "state"

(***************************************************************************)
(* C26: the delays between the attempts of one request_json call.          *)
(***************************************************************************)
\* min(8.0, 0.5 * 2^k) seconds, written out in half seconds: 0.5, 1, 2, 4, 8, 8, ...
ClaimedDelay(k) ==
    CASE k = 0 -> 1 [] k = 1 -> 2 [] k = 2 -> 4 [] k = 3 -> 8 [] OTHER -> 16

\* C26: after the failed retryable attempt k (from 0) that is not the last one
\* request_json sleeps min(8.0, 0.5 * 2^k) seconds, never more than 8 seconds,
\* and it does not sleep after the final attempt or a non-retryable failure.
C26_BackoffDelays ==
    /\ \A k \in 1..Len(sleeps) : sleeps[k] = ClaimedDelay(k - 1) /\ sleeps[k] <= 16
    /\ lastSlept <=> /\ gets > 0 /\ result = NoResult
                     /\ RetryableOutcome(lastOutcome) /\ gets <= retries
    /\ Len(sleeps) = (IF lastSlept THEN gets ELSE IF gets = 0 THEN 0 ELSE gets - 1)

C26_Witness ==
    /\ entry = "request_json" /\ retries = 6 /\ gets = 7
    /\ sleeps = <<1, 2, 4, 8, 16, 16>>
    /\ result.kind = "raise" /\ ~lastSlept

(***************************************************************************)
(* C28: which responses request_json returns.                              *)
(***************************************************************************)
\* C28: request_json returns a parsed body only for a response whose status
\* is below 400; a 4xx or 5xx response, 501 and 505 included, ends in a retry
\* or in an UpstreamAPIError.
C28_NoReturnOnErrorStatus ==
    /\ result.kind = "return" =>
          /\ lastOutcome.kind = "resp" /\ lastOutcome.status < 400
          /\ result.value = lastOutcome.json
    /\ (lastOutcome.kind = "resp" /\ lastOutcome.status >= 400) =>
          \/ result = NoResult /\ lastSlept
          \/ result.kind = "raise" /\ result.exc.type = "UpstreamAPIError"

(***************************************************************************)
(* C25: the order of the outbound requests of one lookup.                  *)
(***************************************************************************)
\* geocoder, parents, tract_full bulk, its tables, comparisons bulk, its tables
ClaimedPosition(r) ==
    CASE r.kind = "geocoder" -> 1
      [] r.kind = "parents" -> 2
      [] r.kind = "bulk" /\ r.fetch = "tract_full" -> 3
      [] r.kind = "table" /\ r.fetch = "tract_full" -> 4
      [] r.kind = "bulk" /\ r.fetch = "comparisons" -> 5
      [] r.kind = "table" /\ r.fetch = "comparisons" -> 6
      [] OTHER -> 0

\* the stage of fetch st returned successfully, as the requests show it: its
\* bulk request returned, or one of its per-table requests did
StageSucceeded(st) ==
    \E k \in 1..Len(requests) :
        /\ requests[k].fetch = st
        /\ requests[k].outcome = "return"

\* C25: within one lookup the requests are made in the order geocoder,
\* parents, tract_full (then its per-table fallbacks), comparisons (then its
\* per-table fallbacks), one at a time; a stage's request is made only after
\* the stage before it returned successfully, so a stage that raises
\* prevents every request of the later stages.
C25_RequestOrder ==
    /\ requests[1].kind = "geocoder"
    /\ \A i \in 1..Len(requests) :
          /\ ClaimedPosition(requests[i]) > 0
          /\ i < Len(requests) => requests[i].outcome # "pending"
          /\ \A j \in 1..Len(requests) :
                i < j => /\ ClaimedPosition(requests[i]) <= ClaimedPosition(requests[j])
                         /\ ClaimedPosition(requests[i]) = ClaimedPosition(requests[j])
                               => requests[i].kind = "table"
          /\ requests[i].kind = "parents" => requests[1].outcome = "return"
          /\ requests[i].kind = "bulk" =>
                \A j \in 1..(i - 1) :
                    requests[j].kind \in {"geocoder", "parents"}
                        => requests[j].outcome = "return"
          /\ requests[i].fetch = "comparisons" => StageSucceeded("tract_full")
          /\ requests[i].kind = "table" =>
                \E j \in 1..(i - 1) :
                    /\ requests[j].kind = "bulk" /\ requests[j].fetch = requests[i].fetch
                    /\ requests[j].outcome = "raise"
    /\ (\E i \in 1..Len(requests) :
           /\ requests[i].outcome = "raise"
           /\ requests[i].kind \in {"geocoder", "parents"})
       => /\ requests[Len(requests)].outcome = "raise"
          /\ ~ENABLED Attempt

\* all four stages ran and both fetches went through their per-table requests
C25_Witness ==
    /\ entry = "lookup" /\ pc = "done" /\ response.status = 200
    /\ \E i, j, k, l, m, n \in 1..Len(requests) :
          /\ i < j /\ j < k /\ k < l /\ l < m /\ m < n
          /\ requests[i].kind = "geocoder" /\ requests[j].kind = "parents"
          /\ requests[k].kind = "bulk" /\ requests[k].fetch = "tract_full"
          /\ requests[l].kind = "table" /\ requests[l].fetch = "tract_full"
          /\ requests[m].kind = "bulk" /\ requests[m].fetch = "comparisons"
          /\ requests[n].kind = "table" /\ requests[n].fetch = "comparisons"

(***************************************************************************)
(* C30: the number of GETs of a fetch and of a lookup.                     *)
(***************************************************************************)
\* The GETs made so far are at most retries+1 for each request that is over
\* (the first conjunct of the claims below, true while each of them ran) plus
\* the GETs of the request that is running or was the last.
GetsAtMost == (Len(requests) - 1) * (retries + 1) + gets

BulkRequestsOf(st) ==
    {k \in 1..Len(requests) : requests[k].kind = "bulk" /\ requests[k].fetch = st}

\* the tables a fetch may ask for one by one
TablesOf(st) ==
    IF entry = "fetch" THEN table_ids
    ELSE IF st = "tract_full" THEN LookupTables(FULL_TRACT_TABLES)
    ELSE LookupTables(COMPARISON_TABLES)

\* C30: a lookup ends after a bounded number of requests: with retries = r
\* one fetch_data_show_resilient call over t tables makes at most
\* (r+1) * (1+t) GETs (one bulk request, then at most one request per table,
\* the tables never asked for again after one of them failed), and a whole
\* lookup makes at most (r+1) * (2 + 2 * (1+t)).
C30_GetsBounded ==
    /\ gets <= retries + 1
    /\ \A st \in {"tract_full", "comparisons"} :
          /\ Cardinality(BulkRequestsOf(st)) <= 1
          /\ Cardinality(TableRequestsOf(st)) <= Len(TablesOf(st))
          /\ \A i, j \in TableRequestsOf(st) :
                requests[i].table_ids = requests[j].table_ids => i = j
          /\ \A i \in TableRequestsOf(st) : \A j \in BulkRequestsOf(st) : j < i
    /\ entry = "fetch" =>
          /\ GetsAtMost <= (retries + 1) * (1 + Len(table_ids))
          /\ Len(requests) = Cardinality(BulkRequestsOf(fstage) \cup TableRequestsOf(fstage))
    /\ entry = "lookup" =>
          GetsAtMost
             <= (retries + 1) * (2 + 2 * (1 + Len(LookupTables(FULL_TRACT_TABLES))))
    /\ (pc # "done" /\ result = NoResult) => ENABLED Attempt

\* a lookup with both fetches degraded, every table asked for, whose last
\* request used all its attempts
C30_Witness ==
    /\ entry = "lookup" /\ pc = "done" /\ response.status = 200 /\ retries >= 1
    /\ gets = retries + 1
    /\ GetsAtMost = (retries + 1) * (2 + (1 + Len(LookupTables(FULL_TRACT_TABLES)))
                                      + (1 + Len(LookupTables(COMPARISON_TABLES))))

(***************************************************************************)
(* C29: the fetcher of census_service.py against the one of                *)
(* census_profile_service.py.                                              *)
(***************************************************************************)
\* what census_profile_service.fetch_data_show_resilient does with the bulk
\* error: it goes on to the per-table requests when the lowered message has
\* the whole marker, and raises the error again otherwise
ProfileFetcherFallsBack(exc) == ContainsMarkerIgnoringCase(exc.message)

\* C29: on a single geoid census_service.fetch_data_show_resilient does what
\* census_profile_service.fetch_data_show_resilient does on the same
\* table_ids and upstream outcomes: the same requests, the same payload and
\* errors or the same raised error; it enters degraded mode for exactly the
\* same bulk error messages.
C29_FetchersEquivalent ==
    (entry = "service_fetch" /\ requests[1].outcome = "raise") =>
        IF ProfileFetcherFallsBack(requests[1].exc)
        THEN pc # "bulk" => degraded
        ELSE /\ ~degraded
             /\ Len(requests) = 1
             /\ pc # "bulk" => fresult = FetchRaise(requests[1].exc)

(***************************************************************************)
(* C24: the age of a result served from the POI cache.                     *)
(***************************************************************************)
\* the request time of the fetch that produced the result now cached for
\* the key of the last request
FetchedAt == CACHE[cache_key(args[1], args[2], args[3])].data.ts

\* C24: a result that get_overpass_pois serves from its cache was fetched
\* from Overpass less than 3600 seconds before the request it answers.
C24_CacheHitIsFresh ==
    (entry = "pois" /\ args # <<>> /\ ret.kind = "return" /\ ret.value.cached) =>
        ret.value.ts - FetchedAt < 3600

(***************************************************************************)
(* C21, C22, C23, C27: the derived block.  The claims read the columns of  *)
(* the payloads build_derived was given.                                   *)
(***************************************************************************)
\* the table and columns the payloads of this call have values for
Focus == CHOOSE c \in DerivedCases : c.metric = args.metric_id

ColumnOf(payload, geoid, kind, column) ==
    LET table == payload["data"][geoid][Focus.table][kind] IN
    IF column \in DOMAIN table /\ table[column].t = "num" THEN table[column] ELSE PyNone

TractRaw == ColumnOf(args.tract_full_payload, TRACT_GEOID, "estimate", Focus.column)
TractWhole == ColumnOf(args.tract_full_payload, TRACT_GEOID, "estimate", Focus.whole)
TractMoe == ColumnOf(args.tract_full_payload, TRACT_GEOID, "error", ret.metric.column_id)
CountyRaw == ColumnOf(args.comparisons_payload, COUNTY_GEOID, "estimate", Focus.column)
CountyWhole == ColumnOf(args.comparisons_payload, COUNTY_GEOID, "estimate", Focus.whole)

BuiltDerived == entry = "build_derived" /\ pc = "return"

MedianMetrics ==
    {"median_household_income", "per_capita_income", "median_home_value", "median_rent"}

PercentMetrics ==
    {"male_share", "female_share", "poverty_rate", "married_share", "fertility_rate",
     "hs_or_higher_pct", "bachelors_or_higher_pct", "foreign_born_pct", "veteran_pct",
     "language_other_than_english_pct", "moved_last_year_pct"}

\* the part of a percent metric: the column itself, or for the language
\* metric the whole less the English-only column
ClaimedPart(raw, whole) ==
    IF args.metric_id = "language_other_than_english_pct"
    THEN (IF raw = PyNone \/ whole = PyNone THEN PyNone ELSE Num(whole.v - raw.v))
    ELSE raw

\* pct(part, whole): 100 * part / whole, null without a part or a non-zero whole
ClaimedPct(part, whole) ==
    IF part = PyNone \/ whole = PyNone THEN PyNone
    ELSE IF whole.v = 0 THEN PyNone
    ELSE Num((100 * part.v) \div whole.v)

\* the value of the metric of this call for the county
CountyValue ==
    IF args.metric_id \in PercentMetrics
    THEN ClaimedPct(ClaimedPart(CountyRaw, CountyWhole), CountyWhole)
    ELSE CountyRaw

\* C21: a metric listed in a section, with a non-null tract estimate, carries
\* a comparison line for every allowed ancestor that has a non-null,
\* non-zero value of the metric in the comparisons payload; median_rent and
\* housing_units included.
C21_SectionMetricsCompared ==
    (BuiltDerived /\ ret.section # "" /\ ret.metric.estimate # PyNone
        /\ CountyValue # PyNone /\ CountyValue.v > 0) =>
        \E i \in 1..Len(ret.comparisons) :
            /\ ret.comparisons[i].geoid = COUNTY_GEOID
            /\ ret.comparisons[i].relation = "county"

\* C22: moe_ratio is |moe / estimate| exactly when estimate and moe are
\* numbers and estimate is not 0, and null otherwise; high_moe holds if and
\* only if moe_ratio is not null and at least 0.10.
C22_MoeRatio ==
    BuiltDerived =>
        LET m == ret.metric IN
        /\ IF m.estimate # PyNone /\ m.moe # PyNone /\ m.estimate # Num(0)
           THEN /\ m.moe_ratio # PyNone
                /\ m.moe_ratio.num * Abs(m.estimate.v) = m.moe_ratio.den * Abs(m.moe.v)
                /\ m.high_moe <=> 10 * Abs(m.moe.v) >= Abs(m.estimate.v)
           ELSE m.moe_ratio = PyNone /\ ~m.high_moe
        /\ m.moe = TractMoe
        /\ (m.estimate = Num(100) /\ m.moe \in {Num(10), Num(11)}) => m.high_moe
        /\ (m.estimate = Num(100) /\ m.moe = Num(9)) => ~m.high_moe

\* estimate 100 with moe 10: the ratio is exactly 0.10
C22_Witness ==
    /\ BuiltDerived
    /\ ret.metric.estimate = Num(100) /\ ret.metric.moe = Num(10)
    /\ ret.metric.high_moe

NotNegative(value) == value = PyNone \/ value.v >= 0

HighlightMedians(h) ==
    <<h.median_household_income, h.per_capita_income, h.median_home_value, h.median_rent>>

\* of a highlights record, the field of the metric of this call
HighlightOf(h) ==
    CASE args.metric_id = "median_household_income" -> h.median_household_income
      [] args.metric_id = "per_capita_income" -> h.per_capita_income
      [] args.metric_id = "median_home_value" -> h.median_home_value
      [] OTHER -> h.median_rent

\* C23: no median-type value of the derived block is negative: a negative
\* raw estimate is null in the section metric, in the highlights of every
\* geoid and in the values compared, and the metric then has a null
\* moe_ratio and high_moe false.
C23_NoNegativeMedian ==
    (BuiltDerived /\ args.metric_id \in MedianMetrics) =>
        /\ NotNegative(ret.metric.estimate)
        /\ (TractRaw # PyNone /\ TractRaw.v < 0) =>
              /\ ret.metric.estimate = PyNone
              /\ ret.metric.moe_ratio = PyNone /\ ~ret.metric.high_moe
              /\ HighlightOf(ret.tract_highlights) = PyNone
              /\ HighlightOf(ret.comparison_highlights[TRACT_GEOID]) = PyNone
              /\ ret.comparisons = <<>>
        /\ (TractRaw # PyNone /\ TractRaw.v >= 0) =>
              /\ ret.metric.estimate = TractRaw
              /\ HighlightOf(ret.tract_highlights) = TractRaw
        /\ (CountyRaw # PyNone /\ CountyRaw.v < 0) =>
              HighlightOf(ret.comparison_highlights[COUNTY_GEOID]) = PyNone
        /\ \A k \in 1..4 :
              /\ NotNegative(HighlightMedians(ret.tract_highlights)[k])
              /\ \A g \in DOMAIN ret.comparison_highlights :
                    NotNegative(HighlightMedians(ret.comparison_highlights[g])[k])
        /\ \A i \in 1..Len(ret.comparisons) :
              /\ NotNegative(ret.comparisons[i].comparison_value)
              /\ ret.comparisons[i].ratio.num >= 0 /\ ret.comparisons[i].ratio.den > 0

\* the tract and the county both have the negative placeholder
C23_Witness ==
    /\ BuiltDerived /\ args.metric_id = "median_household_income"
    /\ TractRaw = Num(-6666) /\ CountyRaw = Num(-6666) /\ TractMoe = Num(11)
    /\ ret.metric.estimate = PyNone /\ ret.metric.moe = Num(11)
    /\ ret.comparison_highlights[COUNTY_GEOID].median_household_income = PyNone

\* C27: the estimate of a percent metric is pct(part, whole): null when the
\* part is missing or the whole is missing or zero, never the raw count of
\* the metric's column.
C27_PercentIsPct ==
    (BuiltDerived /\ args.metric_id \in PercentMetrics) =>
        ret.metric.estimate = ClaimedPct(ClaimedPart(TractRaw, TractWhole), TractWhole)

====
